---- MODULE Spec2Model ----
(***************************************************************************)
(* A model of the ClamAV REST gateway: the scan router (app/routers/scan), *)
(* the ClamAV adapter, the Redis result cache, the S3 fetcher and the      *)
(* Kafka / RabbitMQ publishers.                                            *)
(*                                                                         *)
(* Conventions.  Python None is the string None.  A byte buffer is a       *)
(* sequence over Byte.  A hex digest is a tuple: the empty string is <<>>  *)
(* and sha256(b).hexdigest() is <<"sha256", b>> (injective, never empty).  *)
(* datetime values are naturals read off the variable now; isoformat()     *)
(* wraps them as <<"iso", t>>.                                             *)
(***************************************************************************)
EXTENDS Integers, Sequences, FiniteSets, TLC

VARIABLES
    phase,            \* "init" before lifespan startup, "running" after
    cache_enabled,    \* settings.cache_enabled
    enable_s3,        \* settings.enable_s3
    enable_kafka,     \* settings.enable_kafka
    enable_rabbitmq,  \* settings.enable_rabbitmq
    clamav_client,    \* clamav_client.client is not None
    cache_client,     \* cache_client.client is not None
    redis_up,         \* the Redis server answers (environment)
    store,            \* the Redis keyspace: key -> JSON document
    now,              \* the wall clock (datetime.utcnow())
    req,              \* locals of the scan_files handler in flight
    resp,             \* the last response of POST /scan
    obs,              \* calls made on behalf of the current POST /scan
    fresh,            \* per content: the last fresh verdict still cached
    s3_client,        \* s3_client.client is not None
    kafka_producer,   \* kafka_producer.producer is not None
    admin_client,     \* kafka_producer.admin_client is not None
    rabbitmq_channel, \* rabbitmq_producer.channel is not None
    topics_cache,     \* kafka_producer._topics_cache
    broker_topics,    \* the topics on the Kafka broker (environment)
    objects,          \* the <<bucket, key>> pairs present in S3 (environment)
    queues,           \* the queues declared on the RabbitMQ broker
    jobs,             \* background tasks: request_id -> locals
    next_id,          \* number of request identifiers minted so far
    published,        \* the messages delivered to Kafka and RabbitMQ
    aresp,            \* the last response of POST /scan/kafka or /scan/rabbitmq
    probe,            \* the last response of GET /health or GET /version
    refreshes,        \* _refresh_topics_cache calls waiting to assign
    expiry            \* the Redis keyspace: key -> the time its TTL runs out

syncVars == <<req, resp, obs, fresh>>
confVars == <<cache_enabled, enable_s3, enable_kafka, enable_rabbitmq>>
connVars == <<phase, clamav_client, cache_client, s3_client, kafka_producer,
              admin_client, rabbitmq_channel>>
envVars == <<broker_topics, objects>>
asyncVars == <<topics_cache, queues, jobs, next_id, published, aresp>>
auxVars == <<probe, refreshes>>
vars == <<phase, cache_enabled, enable_s3, enable_kafka, enable_rabbitmq,
          clamav_client, cache_client, redis_up, store, now,
          req, resp, obs, fresh,
          s3_client, kafka_producer, admin_client, rabbitmq_channel,
          topics_cache, broker_topics, objects, queues, jobs, next_id,
          published, aresp, probe, refreshes, expiry>>

----------------------------------------------------------------------------
(* Bounds of the model *)

MaxLen == 2          \* longest uploaded byte buffer
MaxEntries == 2      \* entries in one daemon reply mapping
MaxRequests == 2     \* request identifiers minted by the S3 endpoints
MaxJobs == 1         \* request identifiers minted where termination is checked
MaxTime == 3         \* ticks of the wall clock
MaxRefreshes == 2    \* list_topics calls answered by the broker

(* Program constants, scaled to the bounds *)

max_file_size == 1   \* settings.max_file_size
max_files == 2       \* settings.max_files
cache_ttl == 2       \* settings.cache_ttl, in ticks

None == "None"
Byte == {0, 1}
EmptyHash == <<>>

SeqsUpTo(S, n) == UNION {[1..k -> S] : k \in 0..n}

(* The uploaded byte buffers: every non-empty buffer within the size      *)
(* limit, and one buffer (of zeros) of each length beyond it               *)
Contents ==
    {b \in SeqsUpTo(Byte, MaxLen) \ {<<>>} :
        Len(b) > max_file_size => \A k \in 1..Len(b) : b[k] = 0}

(* hashlib.sha256(b).hexdigest() *)
Sha256(b) == <<"sha256", b>>

(* datetime.isoformat / datetime.fromisoformat *)
IsoFormat(t) == <<"iso", t>>
FromIsoFormat(s) == s[2]

----------------------------------------------------------------------------
(* app/models.py: FileScanResult *)

FileScanResult(filename, size, hash, status, sig, secs, ts, cached) ==
    [filename |-> filename, size_bytes |-> size, sha256_hash |-> hash,
     status |-> status, virus_signature |-> sig,
     scan_time_seconds |-> secs, timestamp |-> ts, cached |-> cached]

----------------------------------------------------------------------------
(* app/services/clamav_client.py *)

Signatures == {"Win.Test.EICAR_HDB-1", "Other.Sig"}
(* One entry of the mapping clamd returns: path -> (status, virus_name) *)
ReplyEntries ==
    {[status |-> "FOUND", name |-> s] : s \in Signatures}
      \cup {[status |-> "OK", name |-> None]}
ErrorMessages == {"Scan error", ""}

(* What self.client.instream(stream) does: returns None, returns a       *)
(* mapping (kept as the sequence of its items in iteration order), or    *)
(* raises an exception e with str(e) = msg.                              *)
NoReply == [kind |-> "none", entries |-> <<>>, msg |-> None]
Replies ==
    {NoReply}
      \cup {[kind |-> "dict", entries |-> es, msg |-> None] :
               es \in SeqsUpTo(ReplyEntries, MaxEntries)}
      \cup {[kind |-> "raise", entries |-> <<>>, msg |-> m] : m \in ErrorMessages}

(* Python truthiness of an Optional[str] *)
Truthy(s) == s # None /\ s # ""

(* The for-loop of scan_stream: the first truthy virus_name, else None *)
RECURSIVE FirstNameFrom(_, _)
FirstNameFrom(es, k) ==
    IF k > Len(es) THEN None
    ELSE IF Truthy(es[k].name) THEN es[k].name
    ELSE FirstNameFrom(es, k + 1)

ExtractSignature(es) == FirstNameFrom(es, 1)

(* As scan_stream, timing the call it answers without a handle *)
scan_streamTimed(client, file_obj, filename, reply, elapsed, t) ==
    IF ~client THEN
        [result |-> FileScanResult(filename, 0, EmptyHash, "error", None, elapsed, t, FALSE),
         error |-> "ClamAV client not connected",
         contacted |-> FALSE]
    ELSE IF file_obj.read_error # None THEN
        [result |-> FileScanResult(filename, 0, EmptyHash, "error", None, elapsed, t, FALSE),
         error |-> file_obj.read_error,
         contacted |-> FALSE]
    ELSE LET size == Len(file_obj.content)
             hash == Sha256(file_obj.content)
         IN  CASE reply.kind = "raise" ->
                   [result |-> FileScanResult(filename, size, hash, "error", None, elapsed, t, FALSE),
                    error |-> reply.msg,
                    contacted |-> TRUE]
               [] reply.kind = "none" ->
                   [result |-> FileScanResult(filename, size, hash, "clean", None, elapsed, t, FALSE),
                    error |-> None,
                    contacted |-> TRUE]
               [] OTHER ->
                   [result |-> FileScanResult(filename, size, hash, "infected",
                                              ExtractSignature(reply.entries), elapsed, t, FALSE),
                    error |-> None,
                    contacted |-> TRUE]

(* ClamAVClient.scan_stream.  file_obj = [content, read_error]: read()    *)
(* returns content, or raises e with str(e) = read_error when that is not *)
(* None.  reply is what instream does; elapsed is                         *)
(* round(time() - start_time, 2).  Returns [result, error, contacted],    *)
(* contacted telling whether instream was called.                         *)
scan_stream(client, file_obj, filename, reply, elapsed, t) ==
    IF ~client THEN
        [result |-> FileScanResult(filename, 0, EmptyHash, "error", None, 0, t, FALSE),
         error |-> "ClamAV client not connected",
         contacted |-> FALSE]
    ELSE IF file_obj.read_error # None THEN
        [result |-> FileScanResult(filename, 0, EmptyHash, "error", None, elapsed, t, FALSE),
         error |-> file_obj.read_error,
         contacted |-> FALSE]
    ELSE LET size == Len(file_obj.content)
             hash == Sha256(file_obj.content)
         IN  CASE reply.kind = "raise" ->
                   [result |-> FileScanResult(filename, size, hash, "error", None, elapsed, t, FALSE),
                    error |-> reply.msg,
                    contacted |-> TRUE]
               [] reply.kind = "none" ->
                   [result |-> FileScanResult(filename, size, hash, "clean", None, elapsed, t, FALSE),
                    error |-> None,
                    contacted |-> TRUE]
               [] OTHER ->
                   [result |-> FileScanResult(filename, size, hash, "infected",
                                              ExtractSignature(reply.entries), elapsed, t, FALSE),
                    error |-> None,
                    contacted |-> TRUE]

(* ClamAVClient.connect: the handle afterwards.  known: connection_type   *)
(* is "unix" or "tcp"; built: the clamd socket object was constructed     *)
(* without raising.  ping() and get_version() swallow their errors.       *)
ClamavConnect(known, built) == known /\ built

----------------------------------------------------------------------------
(* app/services/cache.py *)

CacheKey(hash) == <<"scan", hash>>

(* result.model_dump() with the timestamp as an ISO string, json.dumps *)
ToJson(v) == [v EXCEPT !.timestamp = IsoFormat(v.timestamp)]
(* As FromJson, stamping the verdict with the time it is read *)
FromJsonNow(d) == [d EXCEPT !.timestamp = now]

(* json.loads, datetime.fromisoformat, then the FileScanResult constructor *)
FromJson(d) == [d EXCEPT !.timestamp = FromIsoFormat(d.timestamp)]

(* A stored document that is not a FileScanResult, and the test that     *)
(* json.loads and the FileScanResult constructor make                    *)
Garbage == [garbage |-> TRUE]
Deserializable(d) == "status" \in DOMAIN d

(* The guard shared by get_scan_result and set_scan_result *)
CacheUsable == cache_client /\ cache_enabled

(* As CacheHit, with a lookup that still answers while Redis is down *)
CacheHitDuringOutage(hash) ==
    /\ CacheUsable
    /\ CacheKey(hash) \in DOMAIN store
    /\ Deserializable(store[CacheKey(hash)])

(* CacheClient.get_scan_result returns a verdict (not None) *)
CacheHit(hash) ==
    /\ CacheUsable
    /\ redis_up
    /\ CacheKey(hash) \in DOMAIN store
    /\ Deserializable(store[CacheKey(hash)])

(* CacheClient.get_scan_result: the verdict returned when CacheHit *)
get_scan_result(hash) == FromJson(store[CacheKey(hash)])

(* CacheClient.set_scan_result: the flag it returns *)
set_scan_result(hash, result) == CacheUsable /\ redis_up

(* As StoreAfterSet, writing only the verdicts of scans that succeeded *)
StoreAfterSetUnlessError(hash, result) ==
    IF set_scan_result(hash, result) /\ result.status # "error"
    THEN [k \in DOMAIN store \cup {CacheKey(hash)} |->
             IF k = CacheKey(hash) THEN ToJson(result) ELSE store[k]]
    ELSE store

(* CacheClient.set_scan_result: the keyspace after setex *)
StoreAfterSet(hash, result) ==
    IF set_scan_result(hash, result)
    THEN [k \in DOMAIN store \cup {CacheKey(hash)} |->
             IF k = CacheKey(hash) THEN ToJson(result) ELSE store[k]]
    ELSE store

(* As ExpiryAfterSet, with a write that sets no TTL *)
ExpiryAfterSetForever(hash, result) ==
    IF set_scan_result(hash, result)
    THEN [k \in DOMAIN expiry \cup {CacheKey(hash)} |->
             IF k = CacheKey(hash) THEN MaxTime + cache_ttl + 1 ELSE expiry[k]]
    ELSE expiry

(* CacheClient.set_scan_result: the deadlines after                      *)
(* setex(key, settings.cache_ttl, ...)                                   *)
ExpiryAfterSet(hash, result) ==
    IF set_scan_result(hash, result)
    THEN [k \in DOMAIN expiry \cup {CacheKey(hash)} |->
             IF k = CacheKey(hash) THEN now + cache_ttl ELSE expiry[k]]
    ELSE expiry

(* CacheClient.connect: the handle afterwards *)
CacheConnect == cache_enabled /\ redis_up

----------------------------------------------------------------------------
(* app/routers/scan.py: POST /scan *)

(* file.filename of an uploaded part; it may be missing *)
UploadNames == {"a.txt", None}
(* files[i - 1].filename: the first file of a request is named, the next  *)
(* one carries no filename                                                *)
UploadName(i) == IF i % 2 = 1 THEN "a.txt" ELSE None
(* round(time() - start_time, 2) of a scan: every scan lasts one tick *)
Elapsed == {1}

IdleRequest ==
    [pc |-> "idle", n |-> 0, i |-> 0, file_content |-> <<>>, filename |-> None,
     sha256_hash |-> EmptyHash, results |-> <<>>,
     clean_count |-> 0, infected_count |-> 0, error_count |-> 0]

NoCalls ==
    [submitted |-> 0, lookups |-> 0, writes |-> 0, scans |-> 0, scan_errors |-> 0,
     oversize |-> 0, redis_seen |-> FALSE]

(* raise HTTPException(status_code=code) *)
HTTPError(code) ==
    [status |-> code, total_files |-> 0, clean_files |-> 0, infected_files |-> 0,
     error_files |-> 0, results |-> <<>>]

NoResponse == HTTPError(0)

(* return ScanResponse(...) *)
ScanResponse(r) ==
    [status |-> 200, total_files |-> r.n, clean_files |-> r.clean_count,
     infected_files |-> r.infected_count, error_files |-> r.error_count,
     results |-> r.results]

(* As ScanFilesRejection, with the file-count checks ahead of the 503 check *)
ScanFilesRejectionCountFirst(n) ==
    IF n = 0 THEN 400
    ELSE IF n > max_files THEN 400
    ELSE IF ~clamav_client THEN 503
    ELSE 0

ScanFilesRejectionUnlimited(n) ==
    IF ~clamav_client THEN 503
    ELSE IF n = 0 THEN 400
    ELSE 0

(* The checks that open scan_files: the status they raise, 0 when none does *)
ScanFilesRejection(n) ==
    IF ~clamav_client THEN 503
    ELSE IF n = 0 THEN 400
    ELSE IF n > max_files THEN 400
    ELSE 0

(* scan_files up to the for loop *)
ScanFilesBegin(n) ==
    /\ phase = "running"
    /\ req.pc = "idle"
    /\ obs' = [NoCalls EXCEPT !.submitted = n]
    /\ IF ScanFilesRejection(n) # 0
       THEN /\ resp' = HTTPError(ScanFilesRejection(n))
            /\ req' = IdleRequest
       ELSE /\ resp' = NoResponse
            /\ req' = [IdleRequest EXCEPT !.pc = "read", !.n = n, !.i = 1]
    /\ UNCHANGED <<confVars, auxVars, connVars, redis_up, store, expiry, now, fresh, envVars, asyncVars>>

AppendResultFirst(results, v) == <<v>> \o results

(* results.append(...) *)
AppendResult(results, v) == Append(results, v)

(* As NextFile, skipping the file after the one just finished *)
NextFileSkipping(r) ==
    LET done == [r EXCEPT !.file_content = <<>>, !.filename = None,
                          !.sha256_hash = EmptyHash]
    IN  IF r.i < r.n
        THEN [done EXCEPT !.pc = "read", !.i = r.i + 2]
        ELSE [done EXCEPT !.pc = "idle"]

(* The end of one loop iteration: the next file, or the return statement *)
NextFile(r) ==
    LET done == [r EXCEPT !.file_content = <<>>, !.filename = None,
                          !.sha256_hash = EmptyHash]
    IN  IF r.i < r.n
        THEN [done EXCEPT !.pc = "read", !.i = r.i + 1]
        ELSE [done EXCEPT !.pc = "idle"]

ResponseAfter(r) == IF r.i < r.n THEN NoResponse ELSE ScanResponse(r)

(* The counters after a cache hit with the given status *)
CountCached(r, status) ==
    IF status = "clean" THEN [r EXCEPT !.clean_count = @ + 1]
    ELSE IF status = "infected" THEN [r EXCEPT !.infected_count = @ + 1]
    ELSE [r EXCEPT !.error_count = @ + 1]

(* The counters after a fresh scan returning (result, error) *)
CountScanned(r, result, error) ==
    IF Truthy(error) THEN [r EXCEPT !.error_count = @ + 1]
    ELSE IF result.status = "clean" THEN [r EXCEPT !.clean_count = @ + 1]
    ELSE IF result.status = "infected" THEN [r EXCEPT !.infected_count = @ + 1]
    ELSE r

(* As OversizeResult, hashing the buffer before rejecting it *)
OversizeResultHashed(filename, content) ==
    FileScanResult(filename, Len(content), Sha256(content), "error", None, 0, now, FALSE)

(* The verdict of a file rejected by the size check *)
OversizeResult(filename, content) ==
    FileScanResult(filename, Len(content), EmptyHash, "error", None, 0, now, FALSE)

(* As CachedResult, without setting the cached flag *)
CachedResultNotFlagged(hash, filename) ==
    [get_scan_result(hash) EXCEPT !.filename = filename, !.timestamp = now]

(* As CachedResult, keeping the filename of the stored verdict *)
CachedResultStoredName(hash, filename) ==
    [get_scan_result(hash) EXCEPT !.timestamp = now, !.cached = TRUE]

(* The verdict returned on a cache hit *)
CachedResult(hash, filename) ==
    [get_scan_result(hash) EXCEPT !.filename = filename, !.timestamp = now,
                                  !.cached = TRUE]

(* Bookkeeping of the checks, not program state: fresh maps a content to  *)
(* the verdict last computed for it (not served from the cache) that a     *)
(* later scan can still rely on: written to the cache and not yet expired, *)
(* or produced by the size check.                                          *)
Remember(content, v) ==
    [c \in DOMAIN fresh \cup {content} |-> IF c = content THEN v ELSE fresh[c]]

(* One loop iteration of scan_files from file.read() to the cache lookup: *)
(* the size check, the hash, the lookup and the cache-hit branch.         *)
ScanFilesLookup(content, name) ==
    /\ req.pc = "read"
    /\ LET filename == IF Truthy(name) THEN name ELSE "unknown"
           hash == Sha256(content)
       IN  IF Len(content) > max_file_size
           THEN LET v == OversizeResult(filename, content)
                    r == [req EXCEPT !.results = AppendResult(@, v), !.error_count = @ + 1]
                IN  /\ req' = NextFile(r)
                    /\ resp' = ResponseAfter(r)
                    /\ obs' = [obs EXCEPT !.oversize = @ + 1]
                    /\ fresh' = Remember(content, v)
           ELSE IF CacheHit(hash)
           THEN LET v == CachedResult(hash, filename)
                    r == [CountCached(req, v.status) EXCEPT !.results = AppendResult(@, v)]
                IN  /\ req' = NextFile(r)
                    /\ resp' = ResponseAfter(r)
                    /\ obs' = [obs EXCEPT !.lookups = @ + 1,
                                          !.redis_seen = @ \/ redis_up]
                    /\ fresh' = fresh
           ELSE /\ req' = [req EXCEPT !.pc = "scan", !.file_content = content,
                                      !.filename = filename, !.sha256_hash = hash]
                /\ resp' = resp
                /\ obs' = [obs EXCEPT !.lookups = @ + 1,
                                      !.redis_seen = @ \/ redis_up]
                /\ fresh' = fresh
    /\ UNCHANGED <<confVars, auxVars, connVars, redis_up, store, expiry, now, envVars, asyncVars>>

(* As AfterCacheWrite, counting a failed cache write as an error *)
AfterCacheWriteCounted(r, written) ==
    IF written THEN r ELSE [r EXCEPT !.error_count = @ + 1]

(* cache_client.set_scan_result(sha256_hash, result): the flag returned *)
(* is not looked at                                                     *)
AfterCacheWrite(r, written) == r

(* The rest of the iteration after a cache miss: file.seek(0), the scan,  *)
(* the counters, the cache write and results.append.                      *)
ScanFilesScan(read_error, reply, elapsed) ==
    /\ req.pc \in {"scan", "scanning"}
    /\ LET s == scan_stream(clamav_client,
                            [content |-> req.file_content, read_error |-> read_error],
                            req.filename, reply, elapsed, now)
           r == [AfterCacheWrite(CountScanned(req, s.result, s.error),
                                 set_scan_result(req.sha256_hash, s.result))
                    EXCEPT !.results = AppendResult(@, s.result)]
       IN  /\ store' = StoreAfterSet(req.sha256_hash, s.result)
           /\ expiry' = ExpiryAfterSet(req.sha256_hash, s.result)
           /\ req' = NextFile(r)
           /\ resp' = ResponseAfter(r)
           /\ obs' = [obs EXCEPT !.scans = @ + 1, !.writes = @ + 1,
                                 !.scan_errors = @ + (IF s.result.status = "error" THEN 1 ELSE 0),
                                 !.redis_seen = @ \/ redis_up]
           /\ fresh' = IF set_scan_result(req.sha256_hash, s.result)
                       THEN Remember(req.file_content, s.result)
                       ELSE fresh
    /\ UNCHANGED <<confVars, auxVars, connVars, redis_up, now, envVars, asyncVars>>

----------------------------------------------------------------------------
(* app/services/s3_client.py *)

DefaultBucket == "scans"
Buckets == {DefaultBucket, "b2"}
Keys == {"k1"}
RequestBuckets == {None, "b2"}

(* S3Client.connect: the handle afterwards; ok: list_buckets answered *)
S3Connect(ok) == ok

(* S3Client.file_exists; answers: head_object met no transport error *)
file_exists(key, bucket, answers) ==
    /\ s3_client
    /\ answers
    /\ <<bucket, key>> \in objects

(* As download_file, answering from what the bucket held at admission *)
download_fileStale(key, bucket, answers) ==
    /\ s3_client
    /\ answers

(* S3Client.download_file returns bytes (not None); answers as above *)
download_file(key, bucket, answers) ==
    /\ s3_client
    /\ answers
    /\ <<bucket, key>> \in objects

----------------------------------------------------------------------------
(* app/services/kafka_producer.py *)

DefaultTopic == "scan-results"
(* The topics a request may name (None: the field is omitted), those the  *)
(* broker starts with, and those somebody deletes and creates again while *)
(* the service runs                                                       *)
RequestTopics == {None, "t1", "t2"}
InitialTopics == {DefaultTopic, "t1"}
VolatileTopics == {"t1"}

(* KafkaProducerClient.connect: the handles afterwards; ok: producer and *)
(* admin client started                                                  *)
KafkaConnect(ok) == ok

(* _refresh_topics_cache: the cache afterwards; listed: list_topics      *)
(* answered                                                              *)
RefreshedTopics(admin, listed) ==
    IF admin /\ listed THEN broker_topics ELSE topics_cache

(* topic_exists: the cache after the call *)
TopicsCacheAfter(topic, listed) ==
    IF topic \in topics_cache THEN topics_cache
    ELSE RefreshedTopics(admin_client, listed)

(* topic_exists: the value returned *)
topic_exists(topic, listed) == topic \in TopicsCacheAfter(topic, listed)

(* str(TopicNotFoundError(...)) *)
TopicNotFoundError(topic) == <<"Kafka topic does not exist", topic>>

(* As kafka_send_result, letting the error of send_and_wait leave the   *)
(* method                                                               *)
kafka_send_resultRaising(topic, listed, sent) ==
    IF ~kafka_producer THEN "false"
    ELSE IF ~topic_exists(topic, listed) THEN "raise"
    ELSE IF sent /\ topic \in broker_topics THEN "true"
    ELSE "raise"

(* KafkaProducerClient.send_result: "false", "raise" (TopicNotFoundError) *)
(* or "true"; sent: send_and_wait met no error of its own.  A message     *)
(* reaches a topic only if the broker has it.                             *)
kafka_send_result(topic, listed, sent) ==
    IF ~kafka_producer THEN "false"
    ELSE IF ~topic_exists(topic, listed) THEN "raise"
    ELSE IF sent /\ topic \in broker_topics THEN "true"
    ELSE "false"

(* As MessageKey, every message under the fallback key, which is no     *)
(* request's identifier (0 here)                                        *)
MessageKeyDefault(result, key) == IF key = None THEN 0 ELSE key

(* The message key: request_id unless a key is given *)
MessageKey(result, key) == IF key = None THEN result.request_id ELSE key

----------------------------------------------------------------------------
(* app/services/rabbitmq_producer.py *)

DefaultQueue == "scan-results"
RequestQueues == {None}

(* RabbitMQProducer.connect: the channel afterwards *)
RabbitConnect(ok) == ok

(* RabbitMQProducer.declare_queue; ok: queue_declare did not raise *)
declare_queue(queue, ok) == rabbitmq_channel /\ ok

(* RabbitMQProducer.send_result; ok: basic_publish did not raise *)
rabbitmq_send_result(queue, ok) == rabbitmq_channel /\ ok

----------------------------------------------------------------------------
(* app/routers/scan.py: POST /scan/kafka and POST /scan/rabbitmq *)

(* `request.x or settings.x` *)
Resolve(v, default) == IF Truthy(v) THEN v ELSE default

NoAdmission ==
    [endpoint |-> None, status |-> 0, request_id |-> 0, named |-> None]

(* The response of an admission endpoint.  request_id and named (the     *)
(* destination the message names) are those of the 202 body.             *)
Admission(endpoint, code, request_id, named) ==
    [endpoint |-> endpoint, status |-> code,
     request_id |-> IF code = 202 THEN request_id ELSE 0,
     named |-> IF code = 202 THEN named ELSE None]

(* As KafkaChecks, looking for the topic before the object *)
KafkaChecksTopicFirst(s3_key, s3_bucket, kafka_topic, answers, listed) ==
    << [ok |-> enable_s3, code |-> 501],
       [ok |-> enable_kafka, code |-> 501],
       [ok |-> s3_client, code |-> 503],
       [ok |-> kafka_producer, code |-> 503],
       [ok |-> topic_exists(kafka_topic, listed), code |-> 400],
       [ok |-> file_exists(s3_key, s3_bucket, answers), code |-> 404] >>

(* The checks of scan_s3_file in the order the handler makes them, each  *)
(* with the status its HTTPException carries                             *)
KafkaChecks(s3_key, s3_bucket, kafka_topic, answers, listed) ==
    << [ok |-> enable_s3, code |-> 501],
       [ok |-> enable_kafka, code |-> 501],
       [ok |-> s3_client, code |-> 503],
       [ok |-> kafka_producer, code |-> 503],
       [ok |-> file_exists(s3_key, s3_bucket, answers), code |-> 404],
       [ok |-> topic_exists(kafka_topic, listed), code |-> 400] >>

(* The checks of scan_s3_file_rabbitmq, likewise *)
RabbitMQChecks(s3_key, s3_bucket, rabbitmq_queue, answers, declared) ==
    << [ok |-> enable_s3, code |-> 501],
       [ok |-> enable_rabbitmq, code |-> 501],
       [ok |-> s3_client, code |-> 503],
       [ok |-> rabbitmq_channel, code |-> 503],
       [ok |-> file_exists(s3_key, s3_bucket, answers), code |-> 404],
       [ok |-> declare_queue(rabbitmq_queue, declared), code |-> 503] >>

(* How many checks the handler gets through before one raises *)
Passed(checks) ==
    Cardinality({k \in 1..Len(checks) : \A j \in 1..k : checks[j].ok})

(* The status of the response *)
AdmissionStatus(checks) ==
    IF Passed(checks) = Len(checks) THEN 202 ELSE checks[Passed(checks) + 1].code

(* As StartsTask, queueing the task although the object was not found *)
StartsTaskWhenMissing(code) == code \in {202, 404}

(* background_tasks.add_task is reached *)
StartsTask(code) == code = 202

(* The arguments and locals of a background task.  calls, fetched and   *)
(* existed are bookkeeping of the checks, not program state: what the   *)
(* task called before the send_result it is about to make, which bytes  *)
(* download_file gave it (by their hash, None when it gave none), and   *)
(* whether the broker had the Kafka topic when the request was admitted. *)
NewJob(kind, s3_key, s3_bucket, destination) ==
    [kind |-> kind, s3_key |-> s3_key, s3_bucket |-> s3_bucket,
     destination |-> destination, pc |-> "start", result |-> <<>>,
     calls |-> {}, fetched |-> None,
     existed |-> (kind = "kafka" /\ destination \in broker_topics)]

WithJob(request_id, job) ==
    [k \in DOMAIN jobs \cup {request_id} |->
        IF k = request_id THEN job ELSE jobs[k]]

(* scan_s3_file *)
ScanS3File(s3_key, req_bucket, req_topic, answers, listed) ==
    /\ phase = "running"
    /\ next_id < MaxRequests
    /\ LET s3_bucket == Resolve(req_bucket, DefaultBucket)
           kafka_topic == Resolve(req_topic, DefaultTopic)
           checks == KafkaChecks(s3_key, s3_bucket, kafka_topic, answers, listed)
           code == AdmissionStatus(checks)
           request_id == next_id + 1
       IN  /\ aresp' = Admission("kafka", code, request_id, req_topic)
           /\ next_id' = IF Passed(checks) >= 4 THEN request_id ELSE next_id
           /\ topics_cache' = IF Passed(checks) >= 5
                              THEN TopicsCacheAfter(kafka_topic, listed)
                              ELSE topics_cache
           /\ jobs' = IF StartsTask(code)
                      THEN WithJob(request_id, NewJob("kafka", s3_key, s3_bucket, kafka_topic))
                      ELSE jobs
    /\ UNCHANGED <<confVars, auxVars, connVars, redis_up, store, expiry, now, syncVars, envVars,
                   queues, published>>

(* scan_s3_file_rabbitmq *)
ScanS3FileRabbitMQ(s3_key, req_bucket, req_queue, answers, declared) ==
    /\ phase = "running"
    /\ next_id < MaxRequests
    /\ LET s3_bucket == Resolve(req_bucket, DefaultBucket)
           rabbitmq_queue == Resolve(req_queue, DefaultQueue)
           checks == RabbitMQChecks(s3_key, s3_bucket, rabbitmq_queue, answers, declared)
           code == AdmissionStatus(checks)
           request_id == next_id + 1
       IN  /\ aresp' = Admission("rabbitmq", code, request_id, rabbitmq_queue)
           /\ next_id' = IF Passed(checks) >= 4 THEN request_id ELSE next_id
           /\ queues' = IF Passed(checks) = Len(checks)
                        THEN queues \cup {rabbitmq_queue}
                        ELSE queues
           /\ jobs' = IF StartsTask(code)
                      THEN WithJob(request_id, NewJob("rabbitmq", s3_key, s3_bucket, rabbitmq_queue))
                      ELSE jobs
    /\ UNCHANGED <<confVars, auxVars, connVars, redis_up, store, expiry, now, syncVars, envVars,
                   topics_cache, published>>

----------------------------------------------------------------------------
(* app/routers/scan.py: process_s3_scan and process_s3_scan_rabbitmq *)

DownloadFailed == <<"Failed to download file from S3">>
ClamavUnavailable == <<"ClamAV service not available">>

(* The objects a job downloads, and what the daemon answers it *)
ObjectContents ==
    {c \in Contents : Len(c) <= max_file_size /\ \A k \in 1..Len(c) : c[k] = 0}
JobReplies ==
    {[kind |-> "dict", msg |-> None,
      entries |-> <<[status |-> "FOUND", name |-> "Win.Test.EICAR_HDB-1"]>>],
     [kind |-> "raise", entries |-> <<>>, msg |-> "Scan error"]}

(* The error_result dictionaries *)
ErrorResult(request_id, s3_key, s3_bucket, error) ==
    [request_id |-> request_id, s3_key |-> s3_key, s3_bucket |-> s3_bucket,
     status |-> "error", error |-> error, timestamp |-> IsoFormat(now)]

(* result.model_dump() with request_id, s3_key, s3_bucket added and the *)
(* timestamp as an ISO string                                            *)
ResultDict(v, request_id, s3_key, s3_bucket) ==
    [filename |-> v.filename, size_bytes |-> v.size_bytes,
     sha256_hash |-> v.sha256_hash, status |-> v.status,
     virus_signature |-> v.virus_signature,
     scan_time_seconds |-> v.scan_time_seconds,
     timestamp |-> IsoFormat(v.timestamp), cached |-> v.cached,
     request_id |-> request_id, s3_key |-> s3_key, s3_bucket |-> s3_bucket]

(* A message as the broker holds it *)
Message(kind, destination, key, value) ==
    [kind |-> kind, destination |-> destination, key |-> key, value |-> value]

(* As JobOutcome, asking for the engine before the cache *)
JobOutcomeEngineFirst(downloaded, hit, client) ==
    IF ~downloaded THEN "download_failed"
    ELSE IF ~client THEN "unavailable"
    ELSE IF hit THEN "hit"
    ELSE "scanned"

(* The branch a job takes: file_content is None, cached_result is       *)
(* truthy, clamav_client.client is None, or the scan                    *)
JobOutcome(downloaded, hit, client) ==
    IF ~downloaded THEN "download_failed"
    ELSE IF hit THEN "hit"
    ELSE IF ~client THEN "unavailable"
    ELSE "scanned"

(* What the job has called when it reaches its send_result *)
JobCalls(outcome) ==
    CASE outcome = "download_failed" -> {"download_file"}
      [] outcome = "scanned" ->
            {"download_file", "sha256", "get_scan_result", "scan_stream",
             "set_scan_result"}
      [] OTHER -> {"download_file", "sha256", "get_scan_result"}

(* Either job from its start to its first send_result call: nothing in   *)
(* between awaits.  content is what S3 holds under the key at that time. *)
ProcessS3Scan(request_id, answers, content, reply, elapsed) ==
    /\ request_id \in DOMAIN jobs
    /\ jobs[request_id].pc = "start"
    /\ LET job == jobs[request_id]
           sha256_hash == Sha256(content)
           s == scan_stream(clamav_client,
                            [content |-> content, read_error |-> None],
                            job.s3_key, reply, elapsed, now)
           outcome == JobOutcome(download_file(job.s3_key, job.s3_bucket, answers),
                                 CacheHit(sha256_hash), clamav_client)
           result ==
               CASE outcome = "download_failed" ->
                     ErrorResult(request_id, job.s3_key, job.s3_bucket, DownloadFailed)
                 [] outcome = "hit" ->
                     ResultDict(CachedResult(sha256_hash, job.s3_key),
                                request_id, job.s3_key, job.s3_bucket)
                 [] outcome = "unavailable" ->
                     ErrorResult(request_id, job.s3_key, job.s3_bucket, ClamavUnavailable)
                 [] OTHER ->
                     ResultDict(s.result, request_id, job.s3_key, job.s3_bucket)
           scanned == outcome = "scanned"
       IN  /\ store' = IF scanned THEN StoreAfterSet(sha256_hash, s.result) ELSE store
           /\ expiry' = IF scanned THEN ExpiryAfterSet(sha256_hash, s.result) ELSE expiry
           /\ jobs' = WithJob(request_id,
                              [job EXCEPT !.pc = "send", !.result = <<result>>,
                                          !.calls = JobCalls(outcome),
                                          !.fetched =
                                              IF outcome = "download_failed"
                                              THEN None ELSE sha256_hash])
    /\ UNCHANGED <<confVars, auxVars, connVars, redis_up, now, syncVars, envVars,
                   topics_cache, queues, next_id, published, aresp>>

(* As AfterSend, sending again after a send that returned False *)
AfterSendRetrying(outcome) ==
    IF outcome = "raise" THEN "except"
    ELSE IF outcome = "true" THEN "done"
    ELSE "send"

(* Where process_s3_scan goes after its send_result: the result is not   *)
(* looked at, an exception is caught by the except clause                *)
AfterSend(outcome) == IF outcome = "raise" THEN "except" ELSE "done"

(* As AfterHandler, the exception of the second send_result leaving the  *)
(* task                                                                  *)
AfterHandlerEscaping(outcome) == IF outcome = "raise" THEN "failed" ELSE "done"

(* Where the except clause goes after its own send_result: an exception  *)
(* of it is caught and logged                                            *)
AfterHandler(outcome) == "done"

(* process_s3_scan: kafka_producer.send_result with the job's result.    *)
(* TopicNotFoundError takes the job to its except clause.                *)
PublishKafka(request_id, listed, sent) ==
    /\ request_id \in DOMAIN jobs
    /\ jobs[request_id].pc = "send"
    /\ jobs[request_id].kind = "kafka"
    /\ LET job == jobs[request_id]
           result == job.result[1]
           outcome == kafka_send_result(job.destination, listed, sent)
       IN  /\ topics_cache' = IF kafka_producer
                              THEN TopicsCacheAfter(job.destination, listed)
                              ELSE topics_cache
           /\ published' = IF outcome = "true"
                           THEN published \cup
                                {Message("kafka", job.destination,
                                         MessageKey(result, None), result)}
                           ELSE published
           /\ jobs' = IF outcome = "raise"
                      THEN WithJob(request_id,
                             [job EXCEPT !.pc = "except", !.calls = {}, !.fetched = None,
                                 !.result = <<ErrorResult(request_id, job.s3_key,
                                     job.s3_bucket,
                                     TopicNotFoundError(job.destination))>>])
                      ELSE WithJob(request_id,
                             [job EXCEPT !.pc = AfterSend(outcome), !.calls = {}, !.fetched = None,
                                         !.result = IF AfterSend(outcome) = "done"
                                                    THEN <<>> ELSE @])
    /\ UNCHANGED <<confVars, auxVars, connVars, redis_up, store, expiry, now, syncVars, envVars,
                   queues, next_id, aresp>>

(* process_s3_scan: the except clause publishes error_result; an         *)
(* exception of that send is logged.                                     *)
HandleException(request_id, listed, sent) ==
    /\ request_id \in DOMAIN jobs
    /\ jobs[request_id].pc = "except"
    /\ LET job == jobs[request_id]
           result == job.result[1]
           outcome == kafka_send_result(job.destination, listed, sent)
       IN  /\ topics_cache' = IF kafka_producer
                              THEN TopicsCacheAfter(job.destination, listed)
                              ELSE topics_cache
           /\ published' = IF outcome = "true"
                           THEN published \cup
                                {Message("kafka", job.destination,
                                         MessageKey(result, None), result)}
                           ELSE published
           /\ jobs' = WithJob(request_id,
                              [job EXCEPT !.pc = AfterHandler(outcome),
                                          !.calls = {}, !.fetched = None, !.result = <<>>])
    /\ UNCHANGED <<confVars, auxVars, connVars, redis_up, store, expiry, now, syncVars, envVars,
                   queues, next_id, aresp>>

(* process_s3_scan_rabbitmq: rabbitmq_producer.send_result, which never  *)
(* raises                                                                *)
PublishRabbitMQ(request_id, ok) ==
    /\ request_id \in DOMAIN jobs
    /\ jobs[request_id].pc = "send"
    /\ jobs[request_id].kind = "rabbitmq"
    /\ LET job == jobs[request_id]
           result == job.result[1]
       IN  /\ published' = IF rabbitmq_send_result(job.destination, ok)
                           THEN published \cup
                                {Message("rabbitmq", job.destination, None, result)}
                           ELSE published
           /\ jobs' = WithJob(request_id,
                              [job EXCEPT !.pc = AfterSend("false"), !.calls = {}, !.fetched = None,
                                          !.result = IF AfterSend("false") = "done"
                                                     THEN <<>> ELSE @])
    /\ UNCHANGED <<confVars, auxVars, connVars, redis_up, store, expiry, now, syncVars, envVars,
                   topics_cache, queues, next_id, aresp>>

----------------------------------------------------------------------------
(* The Kafka broker and the S3 bucket, changed by others *)

DeleteTopic(topic) ==
    /\ topic \in broker_topics
    /\ broker_topics' = broker_topics \ {topic}
    /\ UNCHANGED <<confVars, auxVars, connVars, redis_up, store, expiry, now, syncVars, objects,
                   asyncVars>>

CreateTopic(topic) ==
    /\ topic \notin broker_topics
    /\ broker_topics' = broker_topics \cup {topic}
    /\ UNCHANGED <<confVars, auxVars, connVars, redis_up, store, expiry, now, syncVars, objects,
                   asyncVars>>

DeleteObject(o) ==
    /\ o \in objects
    /\ objects' = objects \ {o}
    /\ UNCHANGED <<confVars, auxVars, connVars, redis_up, store, expiry, now, syncVars,
                   broker_topics, asyncVars>>

----------------------------------------------------------------------------
(* app/services/clamav_client.py: ping, get_version *)

(* What the daemon does with a PING or VERSION command: it answers a    *)
(* text, or the call raises                                             *)
Answer(kind, text) == [kind |-> kind, text |-> text]
PingAnswers == {Answer("text", "PONG"), Answer("text", "PANG"),
                Answer("raise", "Connection refused")}
VersionAnswers == {Answer("text", "ClamAV 1.0.0"),
                   Answer("raise", "Connection refused")}

pingAnyAnswer(client, answer) == client /\ answer.kind # "raise"

(* ClamAVClient.ping *)
ping(client, answer) ==
    IF ~client THEN FALSE
    ELSE IF answer.kind = "raise" THEN FALSE
    ELSE answer.text = "PONG"

(* ClamAVClient.get_version *)
get_version(client, answer) ==
    IF ~client THEN None
    ELSE IF answer.kind = "raise" THEN None
    ELSE answer.text

----------------------------------------------------------------------------
(* app/routers/scan.py: GET /health, GET /version *)

(* A JSON true / false *)
Json(b) == IF b THEN "true" ELSE "false"

(* The services dictionary of health_check; connected is true, false or *)
(* None                                                                 *)
Services(clamav_ok) ==
    [clamav |-> [enabled |-> TRUE, connected |-> Json(clamav_ok)],
     redis |-> [enabled |-> TRUE, connected |-> Json(cache_client)],
     s3 |-> [enabled |-> enable_s3,
             connected |-> IF enable_s3 THEN Json(s3_client) ELSE None],
     kafka |-> [enabled |-> enable_kafka,
                connected |-> IF enable_kafka THEN Json(kafka_producer) ELSE None],
     rabbitmq |-> [enabled |-> enable_rabbitmq,
                   connected |-> IF enable_rabbitmq THEN Json(rabbitmq_channel)
                                 ELSE None]]

NoProbe == [endpoint |-> None, status |-> 0, body |-> <<>>]

HealthStatusByHandle(clamav_ok) == IF clamav_client THEN 200 ELSE 503

(* The status of GET /health *)
HealthStatus(clamav_ok) == IF clamav_ok THEN 200 ELSE 503

(* A handler starts or resumes only when the event loop's thread is not *)
(* inside a call: scan_files calls scan_stream without awaiting it      *)
LoopFree == req.pc # "scanning"

(* health_check; answer: what the daemon does with PING *)
HealthCheck(answer) ==
    /\ phase = "running"
    /\ LoopFree
    /\ LET clamav_ok == ping(clamav_client, answer)
       IN  probe' = [endpoint |-> "health",
                     status |-> HealthStatus(clamav_ok),
                     body |-> [status |-> IF clamav_ok THEN "healthy" ELSE "unhealthy",
                               services |-> Services(clamav_ok)]]
    /\ UNCHANGED <<confVars, refreshes, connVars, redis_up, store, expiry, now, syncVars,
                   envVars, asyncVars>>

(* get_version (the handler); answer: what the daemon does with VERSION *)
GetVersion(answer) ==
    /\ phase = "running"
    /\ LoopFree
    /\ LET clamav_version == get_version(clamav_client, answer)
       IN  probe' = IF clamav_version = None
                    THEN [endpoint |-> "version", status |-> 503, body |-> <<>>]
                    ELSE [endpoint |-> "version", status |-> 200,
                          body |-> [clamav_version |-> clamav_version]]
    /\ UNCHANGED <<confVars, refreshes, connVars, redis_up, store, expiry, now, syncVars,
                   envVars, asyncVars>>

(* scan_files after `await file.seek(0)`: the handler is inside          *)
(* clamav_client.scan_stream, waiting for the daemon                     *)
CallDaemon ==
    /\ req.pc = "scan"
    /\ req' = [req EXCEPT !.pc = "scanning"]
    /\ UNCHANGED <<confVars, auxVars, connVars, redis_up, store, expiry, now, resp, obs,
                   fresh, envVars, asyncVars>>

----------------------------------------------------------------------------
(* app/services/kafka_producer.py: _refresh_topics_cache, step by step *)

(* pending: the lists fetched by calls that have not assigned them yet; *)
(* fetches: the calls answered so far; newest: the list fetched last    *)
NoRefreshes == [pending |-> {}, fetches |-> 0, newest |-> {}]

(* topics = await self.admin_client.list_topics() *)
RefreshFetch ==
    /\ phase = "running"
    /\ admin_client
    /\ refreshes.fetches < MaxRefreshes
    /\ refreshes' = [pending |-> refreshes.pending \cup
                                   {[stamp |-> refreshes.fetches + 1,
                                     topics |-> broker_topics]},
                     fetches |-> refreshes.fetches + 1,
                     newest |-> broker_topics]
    /\ UNCHANGED <<confVars, probe, connVars, redis_up, store, expiry, now, syncVars,
                   envVars, asyncVars>>

(* self._topics_cache = set(topics), when the call r is resumed *)
RefreshAssign(r) ==
    /\ r \in refreshes.pending
    /\ topics_cache' = r.topics
    /\ refreshes' = [refreshes EXCEPT !.pending = @ \ {r}]
    /\ UNCHANGED <<confVars, probe, connVars, redis_up, store, expiry, now, syncVars,
                   envVars, queues, jobs, next_id, published, aresp>>

(* Nothing asked of the S3 endpoints yet *)
InitAsyncIdle ==
    /\ s3_client = FALSE
    /\ kafka_producer = FALSE
    /\ admin_client = FALSE
    /\ rabbitmq_channel = FALSE
    /\ topics_cache = {}
    /\ queues = {}
    /\ jobs = <<>>
    /\ next_id = 0
    /\ published = {}
    /\ aresp = NoAdmission
    /\ probe = NoProbe
    /\ refreshes = NoRefreshes
    /\ expiry = <<>>

----------------------------------------------------------------------------
(* app/main.py: lifespan startup *)

Startup(known, built, s3_ok, kafka_ok, listed, rabbit_ok) ==
    /\ phase = "init"
    /\ phase' = "running"
    /\ clamav_client' = ClamavConnect(known, built)
    /\ cache_client' = CacheConnect
    /\ s3_client' = (enable_s3 /\ S3Connect(s3_ok))
    /\ kafka_producer' = (enable_kafka /\ KafkaConnect(kafka_ok))
    /\ admin_client' = (enable_kafka /\ KafkaConnect(kafka_ok))
    /\ topics_cache' = IF enable_kafka /\ KafkaConnect(kafka_ok)
                       THEN RefreshedTopics(TRUE, listed)
                       ELSE topics_cache
    /\ rabbitmq_channel' = (enable_rabbitmq /\ RabbitConnect(rabbit_ok))
    /\ UNCHANGED <<confVars, auxVars, redis_up, store, expiry, now, syncVars, envVars,
                   queues, jobs, next_id, published, aresp>>

----------------------------------------------------------------------------
(* The environment *)

(* The Redis server stops or resumes answering *)
RedisToggle ==
    /\ redis_up' = ~redis_up
    /\ UNCHANGED <<confVars, auxVars, connVars, store, expiry, now, syncVars, envVars, asyncVars>>

(* Redis drops the entry of content c when its TTL runs out *)
Expire(c) ==
    /\ CacheKey(Sha256(c)) \in DOMAIN store
    /\ store' = [k \in DOMAIN store \ {CacheKey(Sha256(c))} |-> store[k]]
    /\ expiry' = [k \in DOMAIN expiry \ {CacheKey(Sha256(c))} |-> expiry[k]]
    /\ fresh' = [d \in DOMAIN fresh \ {c} |-> fresh[d]]
    /\ UNCHANGED <<confVars, auxVars, connVars, redis_up, now, req, resp, obs, envVars, asyncVars>>

(* The wall clock advances; Redis drops the entries whose TTL has run out *)
Alive(t) == {k \in DOMAIN store : expiry[k] > t}

Tick ==
    /\ now < MaxTime
    /\ now' = now + 1
    /\ store' = [k \in Alive(now + 1) |-> store[k]]
    /\ expiry' = [k \in Alive(now + 1) |-> expiry[k]]
    /\ fresh' = [d \in {c \in DOMAIN fresh :
                            CacheKey(Sha256(c)) \in DOMAIN store =>
                                CacheKey(Sha256(c)) \in Alive(now + 1)} |-> fresh[d]]
    /\ UNCHANGED <<confVars, probe, refreshes, connVars, redis_up, req, resp, obs,
                   envVars, asyncVars>>

(* The entry of content c is replaced by a document that does not parse *)
Corrupt(c) ==
    /\ CacheKey(Sha256(c)) \in DOMAIN store
    /\ store[CacheKey(Sha256(c))] # Garbage
    /\ store' = [store EXCEPT ![CacheKey(Sha256(c))] = Garbage]
    /\ expiry' = expiry
    /\ fresh' = [d \in DOMAIN fresh \ {c} |-> fresh[d]]
    /\ UNCHANGED <<confVars, auxVars, connVars, redis_up, now, req, resp, obs, envVars, asyncVars>>

----------------------------------------------------------------------------
(* The synchronous path: POST /scan with the cache *)

InitSync ==
    /\ phase = "init"
    /\ cache_enabled \in BOOLEAN
    /\ enable_s3 = FALSE
    /\ enable_kafka = FALSE
    /\ enable_rabbitmq = FALSE
    /\ clamav_client = FALSE
    /\ cache_client = FALSE
    /\ redis_up \in BOOLEAN
    /\ store = <<>>
    /\ now = 0
    /\ req = IdleRequest
    /\ resp = NoResponse
    /\ obs = NoCalls
    /\ fresh = <<>>
    /\ InitAsyncIdle
    /\ broker_topics = {}
    /\ objects = {}

NextSync ==
    \/ \E known \in BOOLEAN, built \in BOOLEAN :
          Startup(known, built, TRUE, TRUE, TRUE, TRUE)
    \/ \E n \in 0..(max_files + 1) : ScanFilesBegin(n)
    \/ \E c \in Contents : ScanFilesLookup(c, "a.txt")
    \/ \E reply \in Replies, el \in Elapsed : ScanFilesScan(None, reply, el)
    \/ \E e \in ErrorMessages, el \in Elapsed : ScanFilesScan(e, NoReply, el)
    \/ RedisToggle
    \/ \E c \in Contents : Expire(c)

SpecSync == InitSync /\ [][NextSync]_vars

(* Batches whose files are told apart by their position: the bytes are   *)
(* runs of zeros of every length, the names are those of UploadName.     *)
BatchContents == {c \in Contents : \A k \in 1..Len(c) : c[k] = 0}

NextBatch ==
    \/ \E known \in BOOLEAN, built \in BOOLEAN :
          Startup(known, built, TRUE, TRUE, TRUE, TRUE)
    \/ \E n \in 0..(max_files + 1) : ScanFilesBegin(n)
    \/ \E c \in BatchContents : ScanFilesLookup(c, UploadName(req.i))
    \/ \E reply \in Replies, el \in Elapsed : ScanFilesScan(None, reply, el)
    \/ \E e \in ErrorMessages, el \in Elapsed : ScanFilesScan(e, NoReply, el)
    \/ RedisToggle
    \/ \E c \in BatchContents : Expire(c)

SpecBatch == InitSync /\ [][NextBatch]_vars

(* Clients keep posting batches, and every request that was accepted is *)
(* read, scanned and answered                                           *)
SpecBatchFair ==
    /\ InitSync
    /\ [][NextBatch]_vars
    /\ WF_vars(\E n \in 1..max_files : ScanFilesBegin(n))
    /\ WF_vars(\E c \in BatchContents : ScanFilesLookup(c, UploadName(req.i)))
    /\ WF_vars(\E reply \in Replies, el \in Elapsed : ScanFilesScan(None, reply, el))

(* Batches with a cache that fails in every way *)
NextOutage ==
    \/ NextBatch
    \/ \E c \in BatchContents : Corrupt(c)

SpecOutage == InitSync /\ [][NextOutage]_vars

(* Batches while the clock advances and entries reach their TTL *)
NextTtl ==
    \/ \E known \in BOOLEAN : Startup(known, TRUE, TRUE, TRUE, TRUE, TRUE)
    \/ \E n \in 1..max_files : ScanFilesBegin(n)
    \/ \E c \in Contents : ScanFilesLookup(c, UploadName(req.i))
    \/ \E reply \in JobReplies \cup {NoReply}, el \in Elapsed :
          ScanFilesScan(None, reply, el)
    \/ Tick

SpecTtl == InitSync /\ [][NextTtl]_vars

(* The probes, next to one POST /scan of a single file *)
InitProbe ==
    /\ phase = "init"
    /\ cache_enabled \in BOOLEAN
    /\ enable_s3 \in BOOLEAN
    /\ enable_kafka \in BOOLEAN
    /\ enable_rabbitmq \in BOOLEAN
    /\ clamav_client = FALSE
    /\ cache_client = FALSE
    /\ redis_up \in BOOLEAN
    /\ store = <<>>
    /\ now = 0
    /\ req = IdleRequest
    /\ resp = NoResponse
    /\ obs = NoCalls
    /\ fresh = <<>>
    /\ InitAsyncIdle
    /\ broker_topics = InitialTopics
    /\ objects = {}

NextProbe ==
    \/ \E known \in BOOLEAN, built \in BOOLEAN, s3_ok \in BOOLEAN,
          kafka_ok \in BOOLEAN, rabbit_ok \in BOOLEAN :
          Startup(known, built, s3_ok, kafka_ok, TRUE, rabbit_ok)
    \/ \E answer \in PingAnswers : HealthCheck(answer)
    \/ \E answer \in VersionAnswers : GetVersion(answer)
    \/ ScanFilesBegin(1)
    \/ ScanFilesLookup(<<0>>, "a.txt")
    \/ CallDaemon
    \/ \E reply \in {NoReply} \cup {r \in Replies : r.kind = "raise"}, el \in Elapsed :
          req.pc = "scanning" /\ ScanFilesScan(None, reply, el)

SpecProbe == InitProbe /\ [][NextProbe]_vars

(* The ClamAVClient object by itself: its methods called in any order,   *)
(* as the unit tests call them.  probe holds what the last call          *)
(* returned.                                                             *)
otherHandles == <<phase, cache_client, s3_client, kafka_producer, admin_client,
                  rabbitmq_channel>>

(* ClamAVClient.connect: the value returned.  The result of self.ping()  *)
(* is not looked at.                                                     *)
ConnectReturns(known, built, answer) == known /\ built

Returned(method, body) == [endpoint |-> method, status |-> 0, body |-> body]

(* connect() on a client that holds no handle; answer: what the daemon   *)
(* does with the PING of the connection test                             *)
ClientConnect(known, built, answer) ==
    /\ ~clamav_client
    /\ clamav_client' = ClamavConnect(known, built)
    /\ probe' = Returned("connect",
                         [returned |-> ConnectReturns(known, built, answer),
                          known |-> known,
                          answered |-> answer = Answer("text", "PONG")])
    /\ UNCHANGED <<confVars, refreshes, otherHandles, redis_up, store, expiry, now,
                   syncVars, envVars, asyncVars>>

(* disconnect() *)
ClientDisconnect ==
    /\ clamav_client' = FALSE
    /\ probe' = Returned("disconnect", <<>>)
    /\ UNCHANGED <<confVars, refreshes, otherHandles, redis_up, store, expiry, now,
                   syncVars, envVars, asyncVars>>

(* ping() *)
ClientPing(answer) ==
    /\ probe' = Returned("ping", [returned |-> ping(clamav_client, answer)])
    /\ UNCHANGED <<confVars, refreshes, connVars, redis_up, store, expiry, now,
                   syncVars, envVars, asyncVars>>

(* scan_stream(file_obj, filename).  read: file_obj.read() was called,   *)
(* which the method does first once it has found a handle.               *)
ClientScanStream(content, read_error, filename, reply, elapsed) ==
    /\ LET s == scan_stream(clamav_client,
                            [content |-> content, read_error |-> read_error],
                            filename, reply, elapsed, now)
       IN  probe' = Returned("scan_stream",
                             [result |-> s.result, error |-> s.error,
                              contacted |-> s.contacted,
                              read |-> clamav_client])
    /\ UNCHANGED <<confVars, refreshes, connVars, redis_up, store, expiry, now,
                   syncVars, envVars, asyncVars>>

(* A ClamAVClient just constructed; nothing else is running *)
InitClient ==
    /\ phase = "init"
    /\ cache_enabled = FALSE
    /\ enable_s3 = FALSE
    /\ enable_kafka = FALSE
    /\ enable_rabbitmq = FALSE
    /\ clamav_client = FALSE
    /\ cache_client = FALSE
    /\ redis_up = FALSE
    /\ store = <<>>
    /\ now = 0
    /\ req = IdleRequest
    /\ resp = NoResponse
    /\ obs = NoCalls
    /\ fresh = <<>>
    /\ InitAsyncIdle
    /\ broker_topics = {}
    /\ objects = {}

NextClient ==
    \/ \E known \in BOOLEAN, built \in BOOLEAN, answer \in PingAnswers :
          ClientConnect(known, built, answer)
    \/ ClientDisconnect
    \/ \E answer \in PingAnswers : ClientPing(answer)
    \/ \E c \in Contents, name \in UploadNames, reply \in Replies,
          el \in Elapsed :
          ClientScanStream(c, None, name, reply, el)
    \/ \E c \in Contents, name \in UploadNames, e \in ErrorMessages,
          el \in Elapsed :
          ClientScanStream(c, e, name, NoReply, el)
    \/ Tick

SpecClient == InitClient /\ [][NextClient]_vars

(* The S3 endpoints and their background jobs *)
InitAsync ==
    /\ phase = "init"
    /\ cache_enabled = TRUE
    /\ enable_s3 \in BOOLEAN
    /\ enable_kafka \in BOOLEAN
    /\ enable_rabbitmq \in BOOLEAN
    /\ clamav_client = FALSE
    /\ cache_client = FALSE
    /\ redis_up \in BOOLEAN
    /\ store = <<>>
    /\ now = 0
    /\ req = IdleRequest
    /\ resp = NoResponse
    /\ obs = NoCalls
    /\ fresh = <<>>
    /\ InitAsyncIdle
    /\ broker_topics = InitialTopics
    /\ objects = {<<DefaultBucket, k>> : k \in Keys}

NextAsync ==
    \/ \E known \in BOOLEAN, s3_ok \in BOOLEAN, kafka_ok \in BOOLEAN,
          listed \in BOOLEAN, rabbit_ok \in BOOLEAN :
          Startup(known, TRUE, s3_ok, kafka_ok, listed, rabbit_ok)
    \/ \E k \in Keys, b \in RequestBuckets, t \in RequestTopics,
          answers \in BOOLEAN, listed \in BOOLEAN :
          ScanS3File(k, b, t, answers, listed)
    \/ \E k \in Keys, b \in RequestBuckets, q \in RequestQueues,
          answers \in BOOLEAN, declared \in BOOLEAN :
          ScanS3FileRabbitMQ(k, b, q, answers, declared)
    \/ \E id \in 1..MaxRequests, answers \in BOOLEAN, c \in ObjectContents,
          reply \in JobReplies, el \in Elapsed :
          ProcessS3Scan(id, answers, c, reply, el)
    \/ \E id \in 1..MaxRequests, listed \in BOOLEAN, sent \in BOOLEAN :
          PublishKafka(id, listed, sent)
    \/ \E id \in 1..MaxRequests, listed \in BOOLEAN, sent \in BOOLEAN :
          HandleException(id, listed, sent)
    \/ \E id \in 1..MaxRequests, ok \in BOOLEAN : PublishRabbitMQ(id, ok)
    \/ \E t \in VolatileTopics : DeleteTopic(t)
    \/ \E t \in VolatileTopics : CreateTopic(t)
    \/ \E o \in Buckets \X Keys : DeleteObject(o)

SpecAsync == InitAsync /\ [][NextAsync]_vars

(* The steps of the background task of one request *)
JobStep(id) ==
    \/ \E answers \in BOOLEAN, c \in ObjectContents, reply \in JobReplies,
          el \in Elapsed : ProcessS3Scan(id, answers, c, reply, el)
    \/ \E listed \in BOOLEAN, sent \in BOOLEAN : PublishKafka(id, listed, sent)
    \/ \E listed \in BOOLEAN, sent \in BOOLEAN : HandleException(id, listed, sent)
    \/ \E ok \in BOOLEAN : PublishRabbitMQ(id, ok)

(* The event loop runs every task that is ready, and the calls a task    *)
(* waits for return                                                      *)
SpecAsyncFair ==
    /\ InitAsync
    /\ [][NextAsync /\ next_id' <= MaxJobs]_vars
    /\ \A id \in 1..MaxRequests : WF_vars(JobStep(id))

(* Refreshes of the topic cache racing with each other and the broker *)
NextRefresh ==
    \/ \E kafka_ok \in BOOLEAN : Startup(TRUE, TRUE, TRUE, kafka_ok, TRUE, TRUE)
    \/ RefreshFetch
    \/ \E r \in refreshes.pending : RefreshAssign(r)
    \/ \E t \in VolatileTopics : DeleteTopic(t)
    \/ \E t \in VolatileTopics : CreateTopic(t)

SpecRefresh == InitAsync /\ [][NextRefresh]_vars

(* POST /scan and one kind of background job sharing the cache *)
InitCache ==
    /\ phase = "init"
    /\ cache_enabled \in BOOLEAN
    /\ enable_s3 = TRUE
    /\ enable_kafka = TRUE
    /\ enable_rabbitmq = FALSE
    /\ clamav_client = FALSE
    /\ cache_client = FALSE
    /\ redis_up \in BOOLEAN
    /\ store = <<>>
    /\ now = 0
    /\ req = IdleRequest
    /\ resp = NoResponse
    /\ obs = NoCalls
    /\ fresh = <<>>
    /\ InitAsyncIdle
    /\ broker_topics = InitialTopics
    /\ objects = {<<DefaultBucket, k>> : k \in Keys}

NextCache ==
    \/ \E known \in BOOLEAN : Startup(known, TRUE, TRUE, TRUE, TRUE, TRUE)
    \/ \E n \in 1..max_files : ScanFilesBegin(n)
    \/ \E c \in BatchContents : ScanFilesLookup(c, UploadName(req.i))
    \/ \E reply \in JobReplies \cup {NoReply}, el \in Elapsed :
          ScanFilesScan(None, reply, el)
    \/ \E e \in ErrorMessages, el \in Elapsed : ScanFilesScan(e, NoReply, el)
    \/ \E c \in BatchContents : Expire(c)
    \/ \E k \in Keys : ScanS3File(k, None, None, TRUE, TRUE) /\ next_id' <= MaxJobs
    \/ \E id \in 1..MaxJobs, c \in ObjectContents,
          reply \in JobReplies \cup {NoReply}, el \in Elapsed :
          ProcessS3Scan(id, TRUE, c, reply, el)
    \/ \E id \in 1..MaxJobs : PublishKafka(id, TRUE, TRUE)

SpecCache == InitCache /\ [][NextCache]_vars

(* Background jobs for objects of two buckets, running side by side *)
InitPayload ==
    /\ phase = "init"
    /\ cache_enabled = TRUE
    /\ enable_s3 = TRUE
    /\ enable_kafka = TRUE
    /\ enable_rabbitmq = TRUE
    /\ clamav_client = FALSE
    /\ cache_client = FALSE
    /\ redis_up = TRUE
    /\ store = <<>>
    /\ now = 0
    /\ req = IdleRequest
    /\ resp = NoResponse
    /\ obs = NoCalls
    /\ fresh = <<>>
    /\ InitAsyncIdle
    /\ broker_topics = InitialTopics
    /\ objects = Buckets \X Keys

NextPayload ==
    \/ \E known \in BOOLEAN, kafka_ok \in BOOLEAN, rabbit_ok \in BOOLEAN :
          Startup(known, TRUE, TRUE, kafka_ok, TRUE, rabbit_ok)
    \/ \E k \in Keys, b \in RequestBuckets, t \in RequestTopics :
          ScanS3File(k, b, t, TRUE, TRUE)
    \/ \E k \in Keys, b \in RequestBuckets, q \in RequestQueues :
          ScanS3FileRabbitMQ(k, b, q, TRUE, TRUE)
    \/ \E id \in 1..MaxRequests, answers \in BOOLEAN, c \in ObjectContents,
          reply \in JobReplies, el \in Elapsed :
          ProcessS3Scan(id, answers, c, reply, el)
    \/ \E id \in 1..MaxRequests, sent \in BOOLEAN : PublishKafka(id, TRUE, sent)
    \/ \E id \in 1..MaxRequests, sent \in BOOLEAN : HandleException(id, TRUE, sent)
    \/ \E id \in 1..MaxRequests, ok \in BOOLEAN : PublishRabbitMQ(id, ok)
    \/ \E t \in VolatileTopics : DeleteTopic(t)
    \/ \E t \in VolatileTopics : CreateTopic(t)

SpecPayload == InitPayload /\ [][NextPayload]_vars

(* Background jobs over objects of every size, next to a cache that may  *)
(* hold a verdict written before this process started                    *)
StoredContents == BatchContents

PriorContent == <<0>>
PriorStore ==
    [k \in {CacheKey(Sha256(PriorContent))} |->
        ToJson(FileScanResult("old.bin", Len(PriorContent), Sha256(PriorContent),
                              "clean", None, 1, 0, FALSE))]

InitJobs ==
    /\ phase = "init"
    /\ cache_enabled = TRUE
    /\ enable_s3 = TRUE
    /\ enable_kafka = TRUE
    /\ enable_rabbitmq = TRUE
    /\ clamav_client = FALSE
    /\ cache_client = FALSE
    /\ redis_up = TRUE
    /\ now = 0
    /\ req = IdleRequest
    /\ resp = NoResponse
    /\ obs = NoCalls
    /\ fresh = <<>>
    /\ s3_client = FALSE
    /\ kafka_producer = FALSE
    /\ admin_client = FALSE
    /\ rabbitmq_channel = FALSE
    /\ topics_cache = {}
    /\ queues = {}
    /\ jobs = <<>>
    /\ next_id = 0
    /\ published = {}
    /\ aresp = NoAdmission
    /\ probe = NoProbe
    /\ refreshes = NoRefreshes
    /\ store \in {<<>>, PriorStore}
    /\ expiry = [k \in DOMAIN store |-> cache_ttl]
    /\ broker_topics = InitialTopics
    /\ objects = {<<DefaultBucket, k>> : k \in Keys}

NextJobs ==
    \/ \E known \in BOOLEAN : Startup(known, TRUE, TRUE, TRUE, TRUE, TRUE)
    \/ \E k \in Keys : ScanS3File(k, None, None, TRUE, TRUE)
    \/ \E k \in Keys, q \in RequestQueues : ScanS3FileRabbitMQ(k, None, q, TRUE, TRUE)
    \/ \E id \in 1..MaxRequests, answers \in BOOLEAN, c \in StoredContents,
          reply \in JobReplies \cup {NoReply}, el \in Elapsed :
          ProcessS3Scan(id, answers, c, reply, el)
    \/ \E id \in 1..MaxRequests : PublishKafka(id, TRUE, TRUE)
    \/ \E id \in 1..MaxRequests : PublishRabbitMQ(id, TRUE)
    \/ \E o \in Buckets \X Keys : DeleteObject(o)

SpecJobs == InitJobs /\ [][NextJobs]_vars

----------------------------------------------------------------------------
(* Properties of POST /scan *)

Last(q) == q[Len(q)]
Count(q, P(_)) == Cardinality({k \in 1..Len(q) : P(q[k])})
IsError(v) == v.status = "error"
IsOversize(v) == v.size_bytes > max_file_size
Responded == req.pc = "idle" /\ resp.status # 0

(* C1: in every 200 response of POST /scan the three counters add up to *)
(* total_files, which is the number of files submitted.                 *)
C1_CountersAddUp ==
    (Responded /\ resp.status = 200) =>
        /\ resp.clean_files + resp.infected_files + resp.error_files = resp.total_files
        /\ resp.total_files = obs.submitted

(* C2: every verdict, in a response or in the cache, has status infected *)
(* exactly when its signature is non-empty.                              *)
C2_InfectedIffSignature ==
    /\ \A k \in 1..Len(req.results) :
          (req.results[k].status = "infected") <=> Truthy(req.results[k].virus_signature)
    /\ \A key \in DOMAIN store :
          (store[key].status = "infected") <=> Truthy(store[key].virus_signature)

ServedFromCache(c, v) ==
    /\ v.cached
    /\ ~fresh[c].cached
    /\ v.sha256_hash = fresh[c].sha256_hash
    /\ v.status = fresh[c].status
    /\ v.virus_signature = fresh[c].virus_signature

(* The cache answers at this moment: enabled, connected, Redis up *)
CacheWorking == CacheUsable /\ redis_up

(* C4, as claimed: with a working cache, a second scan of any bytes whose   *)
(* earlier verdict has not expired repeats that verdict's hash, status and  *)
(* signature and has from_cache true, the first having from_cache false.    *)
C4_IdempotentAnyBytes ==
    [][\A c \in Contents :
          (ScanFilesLookup(c, "a.txt") /\ CacheWorking /\ c \in DOMAIN fresh)
             => ServedFromCache(c, Last(req'.results))]_vars

(* C4, amended: the same for bytes within max_file_size. *)
C4_IdempotentWithinLimit ==
    [][\A c \in Contents :
          (ScanFilesLookup(c, "a.txt") /\ CacheWorking /\ c \in DOMAIN fresh
              /\ Len(c) <= max_file_size)
             => ServedFromCache(c, Last(req'.results))]_vars

C4_Witness ==
    /\ Len(req.results) = 2
    /\ ~req.results[1].cached
    /\ req.results[2].cached
    /\ req.results[1].sha256_hash = req.results[2].sha256_hash
    /\ req.results[2].status = "infected"
    /\ \E c \in DOMAIN fresh : fresh[c] = req.results[1]

(* C5: a file over max_file_size gets an error verdict with an empty hash, *)
(* zero duration and from_cache false, adds one to error_files, causes no  *)
(* cache lookup, cache write or engine call, and the batch goes on: every  *)
(* 200 response holds one verdict per submitted file.                      *)
C5_OversizeStep ==
    \A c \in Contents :
        (ScanFilesLookup(c, "a.txt") /\ Len(c) > max_file_size) =>
            /\ req'.results = Append(req.results, Last(req'.results))
            /\ Last(req'.results).status = "error"
            /\ Last(req'.results).sha256_hash = EmptyHash
            /\ Last(req'.results).scan_time_seconds = 0
            /\ Last(req'.results).size_bytes = Len(c)
            /\ ~Last(req'.results).cached
            /\ req'.error_count = req.error_count + 1
            /\ req'.clean_count = req.clean_count
            /\ req'.infected_count = req.infected_count
            /\ obs'.lookups = obs.lookups
            /\ obs'.writes = obs.writes
            /\ obs'.scans = obs.scans
            /\ store' = store
            /\ req.i < req.n => (req'.pc = "read" /\ req'.i = req.i + 1)
            /\ req.i = req.n => (req'.pc = "idle" /\ resp'.status = 200)

C5_OversizeRejected ==
    /\ [][C5_OversizeStep]_vars
    /\ []((Responded /\ resp.status = 200) => Len(resp.results) = obs.submitted)

C5_Witness ==
    /\ Responded /\ resp.status = 200
    /\ Len(resp.results) = 2
    /\ IsOversize(resp.results[1])
    /\ resp.results[2].status = "clean"
    /\ resp.error_files = 1

(* No cache call of the current request found the cache working *)
CacheDownThroughout == ~CacheUsable \/ ~obs.redis_seen

(* C6: with the cache unavailable and the engine handle present, a batch   *)
(* of 1..max_files files is answered 200, no verdict has from_cache true,  *)
(* every file within the size limit is handed to the engine, and the only  *)
(* error verdicts are those of the size check and of the engine.           *)
C6_CacheOutageInvisible ==
    (Responded /\ clamav_client /\ obs.submitted \in 1..max_files /\ CacheDownThroughout) =>
        /\ resp.status = 200
        /\ \A k \in 1..Len(resp.results) : ~resp.results[k].cached
        /\ obs.scans = obs.submitted - obs.oversize
        /\ Count(resp.results, IsError) = obs.oversize + obs.scan_errors

C6_Witness ==
    /\ Responded /\ resp.status = 200
    /\ CacheUsable /\ ~obs.redis_seen
    /\ DOMAIN store # {}
    /\ obs.scans = 2
    /\ resp.clean_files = 2

(* C7: a failed scan of one file does not abort the batch: the response is *)
(* 200, every submitted file has its verdict, and every failed scan is     *)
(* counted in error_files.                                                 *)
C7_ScanFailureCounted ==
    (Responded /\ clamav_client /\ obs.submitted \in 1..max_files) =>
        /\ resp.status = 200
        /\ Len(resp.results) = obs.submitted
        /\ resp.error_files >= obs.oversize + obs.scan_errors

----------------------------------------------------------------------------
(* The S3 endpoints *)

AsyncInputs == Keys \X RequestBuckets \X BOOLEAN \X BOOLEAN

(* The status the order of C8 prescribes for POST /scan/kafka *)
ExpectedKafkaStatus(s3_key, s3_bucket, kafka_topic, answers, listed) ==
    IF ~enable_s3 THEN 501
    ELSE IF ~enable_kafka THEN 501
    ELSE IF ~s3_client THEN 503
    ELSE IF ~kafka_producer THEN 503
    ELSE IF ~file_exists(s3_key, s3_bucket, answers) THEN 404
    ELSE IF ~topic_exists(kafka_topic, listed) THEN 400
    ELSE 202

(* The status the order of C8 prescribes for POST /scan/rabbitmq *)
ExpectedRabbitMQStatus(s3_key, s3_bucket, rabbitmq_queue, answers, declared) ==
    IF ~enable_s3 THEN 501
    ELSE IF ~enable_rabbitmq THEN 501
    ELSE IF ~s3_client THEN 503
    ELSE IF ~rabbitmq_channel THEN 503
    ELSE IF ~file_exists(s3_key, s3_bucket, answers) THEN 404
    ELSE IF ~declare_queue(rabbitmq_queue, declared) THEN 503
    ELSE 202

(* Only the two endpoints answer and mint *)
Answered == aresp' # aresp \/ next_id' # next_id

(* Whatever the request, if the step is the handler's, the status is the *)
(* prescribed one                                                        *)
C8_AdmissionStep ==
    Answered =>
    /\ \A i \in AsyncInputs, t \in RequestTopics :
          \/ aresp'.endpoint # "kafka"
          \/ aresp'.status =
                  ExpectedKafkaStatus(i[1], Resolve(i[2], DefaultBucket),
                                      Resolve(t, DefaultTopic), i[3], i[4])
          \/ ~ScanS3File(i[1], i[2], t, i[3], i[4])
    /\ \A i \in AsyncInputs, q \in RequestQueues :
          \/ aresp'.endpoint # "rabbitmq"
          \/ aresp'.status =
                  ExpectedRabbitMQStatus(i[1], Resolve(i[2], DefaultBucket),
                                         Resolve(q, DefaultQueue), i[3], i[4])
          \/ ~ScanS3FileRabbitMQ(i[1], i[2], q, i[3], i[4])

(* C8: both S3 endpoints make their checks in the order S3 enabled,       *)
(* destination enabled, S3 handle, publisher handle, object exists,       *)
(* topic exists or queue declared; the first check that fails decides     *)
(* the status (501, 501, 503, 503, 404, then 400 or 503) and 202 is       *)
(* answered only when all of them pass.                                   *)
C8_AdmissionOrder == [][C8_AdmissionStep]_vars

(* Two checks fail, Kafka disabled and no S3 handle: the earlier one     *)
(* decides                                                               *)
C8_Witness ==
    /\ aresp.endpoint = "kafka"
    /\ aresp.status = 501
    /\ enable_s3
    /\ ~enable_kafka
    /\ ~s3_client

(* Only the two endpoints answer and mint, so a step that does either   *)
(* and leaves a status other than 202 is a rejection                     *)
C9_RejectedStep ==
    (Answered /\ aresp'.status # 202) =>
        UNCHANGED <<jobs, published, store, expiry, queues>>

C9_JobsFromAcks ==
    DOMAIN jobs' # DOMAIN jobs =>
        /\ aresp'.status = 202
        /\ DOMAIN jobs' = DOMAIN jobs \cup {aresp'.request_id}

(* C9: a request rejected at admission, the 404 of a missing object      *)
(* included, starts no background job and so causes no download, no      *)
(* cache or engine call and no message: the step leaves the jobs, the    *)
(* cache and the brokers as they were, jobs only come from 202 answers,  *)
(* and every message ever published belongs to such a job.               *)
C9_RejectedStartsNothing ==
    /\ [][C9_RejectedStep /\ C9_JobsFromAcks]_vars
    /\ [](\A m \in published :
            /\ m.value.request_id \in DOMAIN jobs
            /\ m.kind = jobs[m.value.request_id].kind
            /\ m.destination = jobs[m.value.request_id].destination)

(* A 404 after an accepted request: the identifier minted for the        *)
(* rejected one names no job                                             *)
C9_Witness ==
    /\ aresp.status = 404
    /\ next_id = 2
    /\ DOMAIN jobs = {1}

(* The error payload C10 expects on the topic of job request_id *)
TopicErrorPublished(request_id, msgs) ==
    \E m \in msgs :
        /\ m.kind = "kafka"
        /\ m.destination = jobs[request_id].destination
        /\ m.value.request_id = request_id
        /\ m.value.status = "error"
        /\ "error" \in DOMAIN m.value
        /\ m.value.error = TopicNotFoundError(jobs[request_id].destination)

C10_Step ==
    \A id \in DOMAIN jobs :
        /\ ( /\ jobs[id].kind = "kafka"
             /\ jobs[id].existed
             /\ jobs[id].pc = "send"
             /\ kafka_producer
             /\ jobs[id].destination \notin broker_topics
             /\ jobs'[id].pc # "send" )
           => jobs'[id].pc = "except"
        /\ (jobs[id].pc = "except" /\ jobs'[id].pc = "done")
           => TopicErrorPublished(id, published')

(* C10: when the topic of an admitted Kafka job has left the broker by   *)
(* the time the job publishes, the publish raises topic-not-found and    *)
(* the job ends having published, to that topic, an error payload with   *)
(* its request_id and the topic-not-found reason.                        *)
C10_VanishedTopicReported == [][C10_Step]_vars

----------------------------------------------------------------------------
(* The background jobs *)

JobPcs == {"start", "send", "except", "done"}

(* The message the except clause of job id tries to publish *)
HandlerMessage(id) ==
    Message("kafka", jobs[id].destination, id, jobs[id].result[1])

C11_Step ==
    \A id \in DOMAIN jobs :
        /\ jobs'[id].pc \in JobPcs
        /\ (jobs[id].pc = "except" /\ jobs'[id] # jobs[id]) =>
              /\ jobs'[id].pc = "done"
              /\ \/ published' = published
                 \/ published' = published \cup {HandlerMessage(id)}
              /\ aresp' = aresp

C11_Caught ==
    \A id \in DOMAIN jobs :
        jobs[id].pc = "except" =>
            /\ jobs[id].result[1].request_id = id
            /\ jobs[id].result[1].s3_key = jobs[id].s3_key
            /\ jobs[id].result[1].s3_bucket = jobs[id].s3_bucket
            /\ jobs[id].result[1].status = "error"

(* C11: no exception leaves a background job.  A job is always at one of *)
(* its own steps; an exception takes it to its except clause, which      *)
(* holds an error payload with the job's request_id, key and bucket,     *)
(* makes one send of it to the job's destination and ends the job        *)
(* whether or not that send delivers or raises; the response already     *)
(* given is not touched.                                                 *)
C11_NoExceptionEscapes == [][C11_Step]_vars /\ []C11_Caught

(* A job that ended in its except clause with the error payload delivered *)
C11_Witness ==
    \E id \in DOMAIN jobs :
        /\ jobs[id].pc = "done"
        /\ TopicErrorPublished(id, published)

(* The step that ends a job is one of its send_result calls *)
C12_EndsBySending ==
    \A id \in DOMAIN jobs :
        (jobs[id].pc # "done" /\ jobs'[id].pc = "done") =>
            jobs[id].pc \in {"send", "except"}

(* C12: every admitted job ends, and it ends by a publish attempt: it can *)
(* neither be cancelled nor send again after a failure.                   *)
C12_JobsTerminate ==
    /\ \A id \in 1..MaxRequests :
          (id \in DOMAIN jobs) ~> (id \in DOMAIN jobs /\ jobs[id].pc = "done")
    /\ [][C12_EndsBySending]_vars

(* Every job admitted has ended, one of them with nothing delivered *)
C12_Witness ==
    /\ DOMAIN jobs = 1..MaxJobs
    /\ \A id \in DOMAIN jobs : jobs[id].pc = "done"
    /\ \E id \in DOMAIN jobs : \A m \in published : m.value.request_id # id

----------------------------------------------------------------------------
(* The adapter *)

(* What the daemon's reply says *)
NothingFound(reply) ==
    \/ reply.kind = "none"
    \/ /\ reply.kind = "dict"
       /\ \A k \in 1..Len(reply.entries) : reply.entries[k].status = "OK"

Detections(reply) ==
    IF reply.kind = "dict"
    THEN {k \in 1..Len(reply.entries) : reply.entries[k].status = "FOUND"}
    ELSE {}

FirstDetection(reply) ==
    reply.entries[CHOOSE k \in Detections(reply) :
                      \A j \in Detections(reply) : k <= j].name

(* The mapping C13 states, for the pair s that scan_stream returns *)
ReplyMapped(reply, s) ==
    /\ NothingFound(reply) =>
          /\ s.result.status = "clean"
          /\ s.result.virus_signature = None
          /\ s.error = None
    /\ Detections(reply) # {} =>
          /\ s.result.status = "infected"
          /\ s.result.virus_signature = FirstDetection(reply)
          /\ s.error = None
    /\ reply.kind = "raise" =>
          /\ s.result.status = "error"
          /\ s.error = reply.msg

C13_Step ==
    req.pc = "scan" =>
        \A reply \in Replies, el \in Elapsed :
            ScanFilesScan(None, reply, el) =>
                ReplyMapped(reply,
                    scan_stream(clamav_client,
                                [content |-> req.file_content, read_error |-> None],
                                req.filename, reply, el, now))

(* C13: scan_stream turns a reply that reports nothing found into a      *)
(* clean verdict with no signature and no error, a reply with detections *)
(* into an infected verdict with the first detection's signature and no  *)
(* error, and an error of the call into an error verdict together with   *)
(* the error's message.                                                  *)
C13_ReplyMapping == [][C13_Step]_vars

----------------------------------------------------------------------------
(* The batch *)

(* The filename the verdict of the i-th file carries *)
NameOfFile(i) == IF Truthy(UploadName(i)) THEN UploadName(i) ELSE "unknown"

InOrder(results) ==
    \A i \in 1..Len(results) : results[i].filename = NameOfFile(i)

(* Every iteration adds one verdict at the end, for the file at hand *)
C14_Step ==
    (req.pc \in {"read", "scan"} /\ req'.results # req.results) =>
        /\ \E v \in {Last(req'.results)} : req'.results = Append(req.results, v)
        /\ Len(req'.results) = req.i

C14_Ordered ==
    /\ InOrder(req.results)
    /\ req.pc \in {"read", "scan"} => Len(req.results) = req.i - 1
    /\ resp.status = 200 =>
          /\ resp.total_files = obs.submitted
          /\ Len(resp.results) = resp.total_files
          /\ InOrder(resp.results)

(* C14: the verdicts of a POST /scan response are in submission order,  *)
(* one per file: results has exactly total_files entries and results[i] *)
(* carries the filename of the i-th file, size-rejected files and cache *)
(* hits included.                                                       *)
C14_SubmissionOrder == [][C14_Step]_vars /\ []C14_Ordered

(* A batch of two answered with a size-rejected first file and a second *)
(* file served from the cache                                           *)
C14_Witness ==
    /\ resp.status = 200
    /\ resp.total_files = 2
    /\ IsOversize(resp.results[1])
    /\ resp.results[2].cached

NothingTouched ==
    /\ obs.lookups = 0
    /\ obs.writes = 0
    /\ obs.scans = 0
    /\ obs.scan_errors = 0
    /\ obs.oversize = 0

C15_Step ==
    \A n \in {0} \cup {max_files + 1} :
        (clamav_client /\ ScanFilesBegin(n)) =>
            /\ resp'.status = 400
            /\ req'.pc = "idle"
            /\ store' = store

C15_Rejected ==
    resp.status = 400 =>
        /\ obs.submitted = 0 \/ obs.submitted > max_files
        /\ req.pc = "idle"
        /\ NothingTouched

CacheServes ==
    /\ req.pc = "read"
    /\ \E c \in BatchContents :
          /\ Len(c) <= max_file_size
          /\ CacheHit(Sha256(c))
          /\ ScanFilesLookup(c, UploadName(req.i))

C16_Step ==
    Len(req'.results) > Len(req.results) =>
        (Last(req'.results).cached <=> CacheServes)

C16_NoTimeSpent ==
    \A i \in 1..Len(req.results) :
        (req.results[i].cached \/ IsOversize(req.results[i])) =>
            req.results[i].scan_time_seconds = 0

(* C16: a verdict served from the cache and a size-rejected verdict     *)
(* have a scan duration of 0, and the from-cache flag is set exactly on *)
(* the verdicts served from the cache.                                  *)
C16_CacheHitsTakeNoTime == [][C16_Step]_vars /\ []C16_NoTimeSpent

----------------------------------------------------------------------------
(* The probes *)

HealthAnswered == probe.endpoint = "health"

(* 200 and healthy exactly when the liveness probe succeeds, 503 otherwise *)
C17_Step ==
    \A answer \in PingAnswers :
        HealthCheck(answer) =>
            /\ probe'.status = (IF ping(clamav_client, answer) THEN 200 ELSE 503)
            /\ probe'.body.status = "healthy" <=> probe'.status = 200

(* The switch and the handle of each service *)
Switch ==
    [clamav |-> TRUE, redis |-> cache_enabled, s3 |-> enable_s3,
     kafka |-> enable_kafka, rabbitmq |-> enable_rabbitmq]

Handle ==
    [clamav |-> clamav_client, redis |-> cache_client, s3 |-> s3_client,
     kafka |-> kafka_producer, rabbitmq |-> rabbitmq_channel]

ByHandle(names) ==
    \A n \in names :
        probe.body.services[n].connected =
            (IF Switch[n] THEN Json(Handle[n]) ELSE None)

C17_EveryServiceByHandle ==
    HealthAnswered => ByHandle({"clamav", "redis", "s3", "kafka", "rabbitmq"})

(* C17 as stated: GET /health answers 200 and healthy exactly when ping  *)
(* is true and 503 otherwise, and in both cases every service of the     *)
(* map has connected null when it is disabled and the presence of its    *)
(* handle when it is enabled.                                            *)
C17_HandlesReported == [][C17_Step]_vars /\ []C17_EveryServiceByHandle

C17_ServiceMap ==
    HealthAnswered =>
        /\ probe.status \in {200, 503}
        /\ DOMAIN probe.body.services = {"clamav", "redis", "s3", "kafka", "rabbitmq"}
        /\ \A n \in {"s3", "kafka", "rabbitmq"} :
              probe.body.services[n].enabled = Switch[n]
        /\ ByHandle({"s3", "kafka", "rabbitmq"})
        /\ probe.body.services["clamav"].enabled
        /\ probe.body.services["clamav"].connected = Json(probe.status = 200)
        /\ probe.body.services["redis"].enabled
        /\ probe.body.services["redis"].connected = Json(Handle["redis"])

(* C17, amended: 200 and healthy exactly when ping is true and 503       *)
(* otherwise; in both cases the body carries the map of the five         *)
(* services, where s3, kafka and rabbitmq have connected null when       *)
(* disabled and the presence of their handle when enabled, clamav is     *)
(* always enabled with connected equal to the probe's result, and redis  *)
(* is always enabled with connected telling whether its handle is        *)
(* present.                                                              *)
C17_HealthReflectsProbe == [][C17_Step]_vars /\ []C17_ServiceMap

(* Unhealthy although the handle exists, with a disabled and an enabled *)
(* but unconnected service in the map                                   *)
C17_Witness ==
    /\ HealthAnswered
    /\ probe.status = 503
    /\ clamav_client
    /\ ~enable_s3
    /\ enable_kafka /\ ~kafka_producer

C18_PingStep ==
    \A answer \in PingAnswers :
        HealthCheck(answer) =>
            /\ probe'.status \in {200, 503}
            /\ probe'.body.services["clamav"].connected = "true" <=>
                  (clamav_client /\ answer.kind = "text" /\ answer.text = "PONG")

C18_VersionStep ==
    \A answer \in VersionAnswers :
        GetVersion(answer) =>
            /\ probe'.status \in {200, 503}
            /\ probe'.status = 503 <=> (~clamav_client \/ answer.kind = "raise")
            /\ probe'.status = 200 => probe'.body.clamav_version = answer.text

(* C18: ping and get_version never raise: ping is true only when the    *)
(* handle exists and the daemon answered exactly PONG and false in      *)
(* every other case, get_version is absent when there is no handle or   *)
(* the call raises, and GET /version answers 503 exactly when           *)
(* get_version is absent.                                               *)
C18_ProbesDegrade == [][C18_PingStep /\ C18_VersionStep]_vars

(* GET /version refused although the handle exists: the call raised *)
C18_Witness ==
    /\ probe.endpoint = "version"
    /\ probe.status = 503
    /\ clamav_client

----------------------------------------------------------------------------
(* The event loop *)

(* Another request can be served in the current state *)
SiblingServed ==
    \/ ENABLED (\E answer \in PingAnswers : HealthCheck(answer))
    \/ ENABLED (\E answer \in VersionAnswers : GetVersion(answer))

(* C19: while a call to the scan daemon made for one request is in      *)
(* flight, another request (GET /health for example) can be accepted    *)
(* and make progress.                                                   *)
C19_SiblingsNotBlocked == req.pc = "scanning" => SiblingServed

----------------------------------------------------------------------------
(* The topic cache *)

(* C20: once every refresh of the topic cache has completed, the cache  *)
(* contains every topic of the list fetched most recently from the      *)
(* broker: an older fetched list never overwrites a newer one.          *)
C20_NoLostUpdate ==
    (refreshes.fetches > 0 /\ refreshes.pending = {}) =>
        refreshes.newest \subseteq topics_cache

----------------------------------------------------------------------------
(* The cache on the scan paths *)

(* v is the stored verdict e delivered under the name of the current file *)
HitDelivered(v, name, e) ==
    /\ v.filename = name
    /\ v.cached
    /\ v.size_bytes = e.size_bytes
    /\ v.sha256_hash = e.sha256_hash
    /\ v.status = e.status
    /\ v.virus_signature = e.virus_signature

C21_BatchStep ==
    req.pc = "read" =>
        \A c \in BatchContents :
            (Len(c) <= max_file_size /\ CacheHit(Sha256(c))
                /\ ScanFilesLookup(c, UploadName(req.i))) =>
                /\ HitDelivered(Last(req'.results), NameOfFile(req.i),
                                get_scan_result(Sha256(c)))
                /\ Len(req'.results) = Len(req.results) + 1
                /\ req'.pc # "scan"
                /\ obs'.scans = obs.scans
                /\ obs'.writes = obs.writes
                /\ store' = store

C21_JobStep ==
    \A id \in DOMAIN jobs :
        jobs[id].pc = "start" =>
            \A c \in ObjectContents :
                (CacheHit(Sha256(c))
                    /\ \E reply \in JobReplies \cup {NoReply}, el \in Elapsed :
                          ProcessS3Scan(id, TRUE, c, reply, el)) =>
                    /\ HitDelivered(jobs'[id].result[1], jobs[id].s3_key,
                                    get_scan_result(Sha256(c)))
                    /\ jobs'[id].result[1].request_id = id
                    /\ store' = store

(* C21: on a cache hit, in a batch or in a background job, the verdict  *)
(* delivered has the filename (or object key) of the current request,   *)
(* from_cache true, and the size, hash, status and signature of the     *)
(* stored entry; the engine is not called, the cache is not written,    *)
(* and the stored entry stays as it was.                                *)
C21_CacheHitDelivers == [][C21_BatchStep /\ C21_JobStep]_vars

(* A job has delivered, under its object key, a verdict that a batch *)
(* stored under the name of an upload                                *)
C21_Witness ==
    \E m \in published :
        /\ "cached" \in DOMAIN m.value
        /\ m.value.cached
        /\ m.value.filename \in Keys
        /\ CacheKey(m.value.sha256_hash) \in DOMAIN store
        /\ store[CacheKey(m.value.sha256_hash)].filename = "a.txt"

(* A verdict the adapter returns after a miss goes to the cache *)
C22_WriteStep ==
    /\ (req.pc = "scan" /\ req'.pc # "scan" /\ CacheWorking) =>
          /\ CacheKey(req.sha256_hash) \in DOMAIN store'
          /\ FromJson(store'[CacheKey(req.sha256_hash)]) = Last(req'.results)
    /\ \A id \in DOMAIN jobs :
          (jobs[id].pc = "start" /\ jobs'[id].pc = "send" /\ CacheWorking
              /\ "cached" \in DOMAIN jobs'[id].result[1]
              /\ ~jobs'[id].result[1].cached) =>
              \E c \in ObjectContents :
                  /\ CacheKey(Sha256(c)) \in DOMAIN store'
                  /\ store'[CacheKey(Sha256(c))].status = jobs'[id].result[1].status
                  /\ store'[CacheKey(Sha256(c))].sha256_hash =
                         jobs'[id].result[1].sha256_hash

(* The next scan of bytes whose scan failed is answered from the cache *)
C22_HitStep ==
    req.pc = "read" =>
        \A c \in BatchContents :
            (CacheWorking /\ c \in DOMAIN fresh /\ fresh[c].status = "error"
                /\ Len(c) <= max_file_size
                /\ ScanFilesLookup(c, UploadName(req.i))) =>
                /\ Last(req'.results).status = "error"
                /\ Last(req'.results).cached
                /\ req'.pc # "scan"
                /\ obs'.scans = obs.scans

(* C22: after a cache miss the verdict of the adapter is written to the *)
(* cache whatever its status, error included; with a working cache the  *)
(* next scan of the same bytes, before the entry expires, is served     *)
(* from the cache with status error and the engine is not contacted.    *)
C22_ErrorsAreCached == [][C22_WriteStep /\ C22_HitStep]_vars

(* A batch of two files with the same bytes: the scan of the first *)
(* failed, the second was served from the cache                    *)
C22_Witness ==
    /\ Len(req.results) = 2
    /\ req.results[1].status = "error" /\ ~req.results[1].cached
    /\ req.results[1].sha256_hash # EmptyHash
    /\ req.results[2].status = "error" /\ req.results[2].cached
    /\ req.results[2].sha256_hash = req.results[1].sha256_hash

(* C23: every entry stored in the cache under the key of hash h holds a *)
(* verdict whose content hash is not empty and equals h, error verdicts *)
(* and failed reads of the stream included.                             *)
C23_StoredHashMatchesKey ==
    \A key \in DOMAIN store :
        /\ store[key].sha256_hash # EmptyHash
        /\ CacheKey(store[key].sha256_hash) = key

----------------------------------------------------------------------------
(* The cache on its own *)

(* The lookup of hash h is answered with a verdict *)
LookupAnswers(h) ==
    /\ cache_client
    /\ cache_enabled
    /\ redis_up
    /\ CacheKey(h) \in DOMAIN store
    /\ store[CacheKey(h)] # Garbage

C24_LookupStep ==
    req.pc = "read" =>
        \A c \in BatchContents :
            (Len(c) <= max_file_size /\ ScanFilesLookup(c, UploadName(req.i))) =>
                IF LookupAnswers(Sha256(c))
                THEN /\ Len(req'.results) = Len(req.results) + 1
                     /\ Last(req'.results).cached
                ELSE /\ req'.pc = "scan"
                     /\ req'.results = req.results
                     /\ resp' = resp

Counters(r) == <<r.clean_count, r.infected_count, r.error_count>>

C24_WriteStep ==
    req.pc = "scan" =>
        \A reply \in Replies, el \in Elapsed :
            ScanFilesScan(None, reply, el) =>
                LET s == scan_stream(clamav_client,
                                     [content |-> req.file_content, read_error |-> None],
                                     req.filename, reply, el, now)
                    key == CacheKey(req.sha256_hash)
                IN  /\ Last(req'.results) = s.result
                    /\ Counters(req') = Counters(CountScanned(req, s.result, s.error))
                    /\ resp'.status \in {0, 200}
                    /\ CacheWorking => (key \in DOMAIN store'
                                           /\ store'[key] = ToJson(s.result))
                    /\ ~CacheWorking => store' = store

(* C24: the cache never raises to its caller: a lookup is answered with *)
(* nothing when the handle is missing, caching is disabled, the store   *)
(* raises or the stored value does not parse, and the file is then      *)
(* scanned; a write that fails stores nothing and changes neither the   *)
(* verdict nor the counters of the file.                                *)
C24_CacheBestEffort == [][C24_LookupStep /\ C24_WriteStep]_vars

(* With the cache working, a file whose stored entry does not parse is *)
(* on its way to the engine                                            *)
C24_Witness ==
    /\ req.pc = "scan"
    /\ CacheWorking
    /\ CacheKey(req.sha256_hash) \in DOMAIN store
    /\ store[CacheKey(req.sha256_hash)] = Garbage

(* A write that succeeded: the lookup of its hash returns the verdict *)
(* written, and the other entries are as they were                    *)
C25_WriteStep ==
    (req.pc = "scan" /\ req'.pc # "scan" /\ CacheWorking) =>
        LET key == CacheKey(req.sha256_hash)
        IN  /\ DOMAIN store' = DOMAIN store \cup {key}
            /\ FromJson(store'[key]) = Last(req'.results)
            /\ \A k \in DOMAIN store \ {key} : store'[k] = store[k]

(* Until it expires, the entry of c reads back as the verdict written *)
C25_Kept ==
    \A c \in DOMAIN fresh :
        Len(c) <= max_file_size =>
            /\ CacheKey(Sha256(c)) \in DOMAIN store
            /\ get_scan_result(Sha256(c)) = fresh[c]
            /\ CacheWorking => CacheHit(Sha256(c))

C26_Deadlines ==
    /\ DOMAIN expiry = DOMAIN store
    /\ \A k \in DOMAIN store :
          /\ now < expiry[k]
          /\ expiry[k] <= now + cache_ttl
          /\ Deserializable(store[k]) =>
                now < FromIsoFormat(store[k].timestamp) + cache_ttl

(* A hit leaves the deadlines alone; without an entry the file goes to *)
(* the engine                                                          *)
C26_LookupStep ==
    req.pc = "read" =>
        \A c \in Contents :
            (Len(c) <= max_file_size /\ ScanFilesLookup(c, UploadName(req.i))) =>
                /\ expiry' = expiry
                /\ CacheKey(Sha256(c)) \notin DOMAIN store => req'.pc = "scan"

(* C26: every cache write carries the configured TTL, so no entry is    *)
(* stored without expiry, and a hit does not extend an entry's life: an *)
(* entry written at time t is gone from t + TTL on however often it was *)
(* hit, and the first scan of its bytes after that goes to the engine.  *)
C26_EntriesExpire == [][C26_LookupStep]_vars /\ []C26_Deadlines

(* In one batch: the first file was served from the cache, the entry   *)
(* then expired, and the second file with the same bytes is on its way *)
(* to the engine                                                       *)
C26_Witness ==
    /\ req.pc = "scan"
    /\ Len(req.results) = 1
    /\ req.results[1].cached
    /\ req.results[1].sha256_hash = req.sha256_hash
    /\ CacheKey(req.sha256_hash) \notin DOMAIN store
    /\ CacheWorking

----------------------------------------------------------------------------
(* The counters of a batch *)

IsClean(v) == v.status = "clean"
IsInfected(v) == v.status = "infected"

(* C27: in a 200 response of POST /scan each counter is the number of  *)
(* verdicts of results with the matching status, cache hits counted by *)
(* their stored status and every file counted once.                    *)
C27_CountersMatchVerdicts ==
    (Responded /\ resp.status = 200) =>
        /\ resp.clean_files = Count(resp.results, IsClean)
        /\ resp.infected_files = Count(resp.results, IsInfected)
        /\ resp.error_files = Count(resp.results, IsError)

----------------------------------------------------------------------------
(* The request identifiers *)

(* C28: the asynchronous endpoints mint a request identifier only after *)
(* all their admission checks have passed: no identifier is generated   *)
(* for a request that is rejected.                                      *)
C28_MintedAfterChecks == [][next_id' # next_id => aresp'.status = 202]_vars

----------------------------------------------------------------------------
(* The messages of the background jobs *)

(* A message carries the identity of the job that sends it *)
OwnPayload(m, id, job) ==
    /\ m.value.request_id = id
    /\ m.value.s3_key = job.s3_key
    /\ m.value.s3_bucket = job.s3_bucket
    /\ m.kind = job.kind
    /\ m.destination = job.destination
    /\ (m.kind = "kafka" => m.key = id)

(* An admission answers 202 with the identifier of the one job it starts *)
C29_AdmitStep ==
    (next_id' # next_id /\ aresp'.status = 202) =>
        /\ DOMAIN jobs' = DOMAIN jobs \cup {aresp'.request_id}
        /\ aresp'.request_id \notin DOMAIN jobs
        /\ jobs'[aresp'.request_id].pc = "start"
        /\ <<jobs'[aresp'.request_id].s3_bucket,
             jobs'[aresp'.request_id].s3_key>> \in objects

(* A message that appears was sent by the job whose identity it carries *)
C29_PublishStep ==
    \A m \in published' \ published :
        \E id \in DOMAIN jobs :
            /\ jobs[id].pc \in {"send", "except"}
            /\ jobs'[id].pc = "done"
            /\ OwnPayload(m, id, jobs[id])

(* What a job is about to send, and what the broker holds, is its own *)
C29_Own ==
    /\ \A id \in DOMAIN jobs :
          jobs[id].pc \in {"send", "except"} =>
              /\ jobs[id].result[1].request_id = id
              /\ jobs[id].result[1].s3_key = jobs[id].s3_key
              /\ jobs[id].result[1].s3_bucket = jobs[id].s3_bucket
    /\ \A m \in published :
          /\ m.value.request_id \in DOMAIN jobs
          /\ OwnPayload(m, m.value.request_id, jobs[m.value.request_id])

(* C29: every payload a background job publishes, success or error,     *)
(* carries the request_id of that job's 202 response with the job's     *)
(* object key and bucket; its Kafka messages are keyed by that          *)
(* request_id; no payload carries the identity of another job.          *)
C29_PayloadIdentity == [][C29_AdmitStep /\ C29_PublishStep]_vars /\ []C29_Own

(* Two jobs for different buckets have both published, one of them an   *)
(* error payload on Kafka                                               *)
C29_Witness ==
    \E m1 \in published, m2 \in published :
        /\ m1.value.request_id # m2.value.request_id
        /\ m1.value.s3_bucket # m2.value.s3_bucket
        /\ m1.kind = "kafka"
        /\ m1.value.status = "error"
        /\ m1.key = m1.value.request_id

(* The messages the broker holds of one job *)
Delivered(id) == {m \in published : m.value.request_id = id}

(* send_result answers False, without raising, when the publisher is    *)
(* not connected or the send itself fails; it raises only for a topic   *)
(* it does not find                                                     *)
C30_Returned ==
    /\ \A t \in RequestTopics \cup {DefaultTopic}, listed \in BOOLEAN :
          /\ ~kafka_producer =>
                \A sent \in BOOLEAN : kafka_send_result(t, listed, sent) = "false"
          /\ kafka_send_result(t, listed, FALSE) # "true"
          /\ kafka_send_result(t, listed, FALSE) = "raise" =>
                ~topic_exists(t, listed)
    /\ \A ok \in BOOLEAN :
          /\ ~rabbitmq_channel => ~rabbitmq_send_result(DefaultQueue, ok)
    /\ ~rabbitmq_send_result(DefaultQueue, FALSE)

(* A job that has not ended has delivered nothing *)
C30_Undelivered ==
    \A id \in DOMAIN jobs : jobs[id].pc # "done" => Delivered(id) = {}

(* A job that has ended sends nothing more; a send that does not raise  *)
(* ends the job, delivered or not; the except clause is entered only    *)
(* for a Kafka topic that was not found; a step delivers one message    *)
C30_Step ==
    /\ Cardinality(published' \ published) <= 1
    /\ \A id \in DOMAIN jobs :
          /\ jobs[id].pc = "done" =>
                /\ jobs'[id] = jobs[id]
                /\ {m \in published' : m.value.request_id = id} = Delivered(id)
          /\ (jobs[id].pc = "send" /\ jobs'[id].pc = "except") =>
                /\ jobs[id].kind = "kafka"
                /\ jobs[id].destination \notin topics_cache'
                /\ published' = published
          /\ (jobs[id].pc = "send" /\ jobs'[id] # jobs[id]) =>
                jobs'[id].pc \in {"done", "except"}

(* C30: a publish failure other than destination-not-found is returned  *)
(* as false, not raised, and the job does not retry: every admitted job *)
(* delivers at most one message, and a job whose only publish fails     *)
(* ends with no message delivered and no error payload.                 *)
C30_FailedPublishIsFinal ==
    [][C30_Step]_vars /\ [](C30_Returned /\ C30_Undelivered)

(* A Kafka job and a RabbitMQ job have both ended without a message,    *)
(* the Kafka topic being there all along                                *)
C30_Witness ==
    \E i \in DOMAIN jobs, j \in DOMAIN jobs :
        /\ jobs[i].kind = "kafka" /\ jobs[j].kind = "rabbitmq"
        /\ jobs[i].pc = "done" /\ jobs[j].pc = "done"
        /\ Delivered(i) = {} /\ Delivered(j) = {}
        /\ jobs[i].existed
        /\ jobs[i].destination \in topics_cache \cap broker_topics
        /\ VolatileTopics \subseteq broker_topics

----------------------------------------------------------------------------
(* The branches of a background job *)

(* The payload is the error_result of a failed download *)
IsDownloadFailure(r) ==
    /\ "error" \in DOMAIN r
    /\ r.status = "error"
    /\ r.error = DownloadFailed

(* A job whose object is gone builds the download-failure payload, and   *)
(* a job that builds it has only called download_file and has left the   *)
(* cache as it was                                                       *)
C31_FetchStep ==
    \A id \in DOMAIN jobs :
        (jobs[id].pc = "start" /\ jobs'[id].pc = "send") =>
            /\ <<jobs[id].s3_bucket, jobs[id].s3_key>> \notin objects =>
                  jobs'[id].result[1] =
                      ErrorResult(id, jobs[id].s3_key, jobs[id].s3_bucket,
                                  DownloadFailed)
            /\ IsDownloadFailure(jobs'[id].result[1]) =>
                  /\ jobs'[id].calls = {"download_file"}
                  /\ "sha256_hash" \notin DOMAIN jobs'[id].result[1]
                  /\ store' = store
                  /\ expiry' = expiry

(* The send_result that follows ends the job; what it delivers is that   *)
(* payload, at the job's destination                                     *)
C31_SendStep ==
    \A id \in DOMAIN jobs :
        (jobs[id].pc = "send" /\ IsDownloadFailure(jobs[id].result[1])
           /\ jobs'[id] # jobs[id]) =>
            /\ jobs'[id].pc \in {"done", "except"}
            /\ published' \ published \subseteq
                  {Message(jobs[id].kind, jobs[id].destination,
                           IF jobs[id].kind = "kafka" THEN id ELSE None,
                           jobs[id].result[1])}
            /\ store' = store

(* C31: when the object cannot be fetched after admission (deleted, or   *)
(* a storage error), the background job publishes an error payload with  *)
(* the download-failure reason to its destination and stops: no hash is  *)
(* computed, the cache is neither read nor written, the engine is not    *)
(* called.                                                               *)
C31_DownloadFailure == [][C31_FetchStep /\ C31_SendStep]_vars

(* The download-failure payload of a job whose object was deleted has    *)
(* reached Kafka and RabbitMQ                                            *)
C31_Witness ==
    /\ \E m \in published :
          /\ m.kind = "kafka"
          /\ IsDownloadFailure(m.value)
          /\ <<m.value.s3_bucket, m.value.s3_key>> \notin objects
    /\ \E m \in published :
          /\ m.kind = "rabbitmq"
          /\ IsDownloadFailure(m.value)

(* The payload is the error_result of a missing engine connection *)
IsUnavailable(r) ==
    /\ "error" \in DOMAIN r
    /\ r.status = "error"
    /\ r.error = ClamavUnavailable

(* The payload is a verdict read from the cache under hash h *)
IsCachedVerdict(r, h) ==
    /\ "cached" \in DOMAIN r
    /\ r.cached
    /\ r.sha256_hash = h
    /\ r.status = store[CacheKey(h)].status
    /\ r.virus_signature = store[CacheKey(h)].virus_signature

(* A job that got its bytes while the engine handle is missing: a hit is *)
(* published as the cached verdict, a miss as the unavailable error;     *)
(* neither calls the engine or writes the cache.  With the handle        *)
(* there, a hit does not call the engine either.                         *)
C32_Step ==
    \A id \in DOMAIN jobs :
        (jobs[id].pc = "start" /\ jobs'[id].pc = "send"
           /\ jobs'[id].fetched # None) =>
            LET h == jobs'[id].fetched
                r == jobs'[id].result[1]
            IN  /\ (~clamav_client /\ CacheHit(h)) => IsCachedVerdict(r, h)
                /\ (~clamav_client /\ ~CacheHit(h)) => IsUnavailable(r)
                /\ (~clamav_client \/ CacheHit(h)) =>
                      /\ jobs'[id].calls =
                            {"download_file", "sha256", "get_scan_result"}
                      /\ store' = store
                      /\ expiry' = expiry
                /\ IsUnavailable(r) => ~clamav_client /\ ~CacheHit(h)

(* C32: a background job consults the engine connection only after a     *)
(* cache miss: with the engine disconnected, a job whose bytes are       *)
(* cached publishes the cached verdict (cached true), and a job whose    *)
(* bytes are not cached publishes an error payload saying the engine is  *)
(* unavailable and writes nothing to the cache.                          *)
C32_EngineAfterCache == [][C32_Step]_vars

(* With the engine disconnected, one job has published a cached verdict  *)
(* and another the unavailable error                                     *)
C32_Witness ==
    /\ phase = "running"
    /\ ~clamav_client
    /\ \E m \in published : "cached" \in DOMAIN m.value /\ m.value.cached
    /\ \E m \in published : IsUnavailable(m.value)
    /\ store = PriorStore

(* The bytes behind a hash, and the verdict of a rejected file *)
HashedBytes(h) == h[2]

IsRejected(r) ==
    /\ "sha256_hash" \in DOMAIN r
    /\ r.status = "error"
    /\ r.sha256_hash = EmptyHash
    /\ r.scan_time_seconds = 0

(* C33: the size check applies on every delivery path: a background job  *)
(* whose fetched object exceeds max_file_size produces an error verdict  *)
(* with empty hash and zero duration, does not call the engine and does  *)
(* not write the cache.  Stated for the jobs that run with the engine   *)
(* connected, where the verdict is not the unavailable error.            *)
C33_JobsCheckSize ==
    [][\A id \in DOMAIN jobs :
          (jobs[id].pc = "start" /\ jobs'[id].pc = "send"
             /\ clamav_client
             /\ jobs'[id].fetched # None
             /\ Len(HashedBytes(jobs'[id].fetched)) > max_file_size) =>
              /\ IsRejected(jobs'[id].result[1])
              /\ "scan_stream" \notin jobs'[id].calls
              /\ store' = store]_vars

----------------------------------------------------------------------------
(* The topic check *)

(* topic_exists answers what the broker holds at the time of the call,  *)
(* list_topics answering                                                *)
C34_Exact ==
    kafka_producer =>
        \A t \in (RequestTopics \ {None}) \cup {DefaultTopic} :
            topic_exists(t, TRUE) <=> t \in broker_topics

(* POST /scan/kafka starts a job only for a topic the broker holds *)
C34_AdmitStep ==
    (next_id' # next_id /\ aresp'.endpoint = "kafka" /\ aresp'.status = 202) =>
        jobs'[aresp'.request_id].destination \in broker_topics

(* C34: topic_exists(t) is true if and only if t exists on the broker at *)
(* the time of the call, so POST /scan/kafka admits a job only when its  *)
(* topic currently exists, whatever topics were created and deleted      *)
(* since the publisher connected.                                        *)
C34_TopicExistsIsCurrent == [][C34_AdmitStep]_vars /\ []C34_Exact

----------------------------------------------------------------------------
(* The acknowledgement *)

(* C38: the 202 response of an asynchronous scan names the destination   *)
(* its background job publishes to; when the request omits the topic or  *)
(* queue, that is the configured default, on both endpoints.             *)
C38_AckNamesDestination ==
    [][(next_id' # next_id /\ aresp'.status = 202) =>
          aresp'.named = jobs'[aresp'.request_id].destination]_vars

----------------------------------------------------------------------------
(* The ClamAVClient object *)

(* C35: connect() returns True, leaving a handle, only if the daemon     *)
(* answered the connection test; if the daemon does not answer or the    *)
(* connection type is unknown, connect() returns False and the handle    *)
(* is None afterwards.                                                   *)
C35_ConnectTested ==
    probe.endpoint = "connect" =>
        /\ probe.body.returned => (clamav_client /\ probe.body.answered)
        /\ (~probe.body.answered \/ ~probe.body.known) =>
              (~probe.body.returned /\ ~clamav_client)

(* A call of scan_stream on a client without handle *)
C37_Step ==
    (probe' # probe /\ probe'.endpoint = "scan_stream" /\ ~clamav_client) =>
        /\ ~clamav_client'
        /\ probe'.body.result =
              FileScanResult(probe'.body.result.filename, 0, EmptyHash, "error",
                             None, 0, now, FALSE)
        /\ probe'.body.error = "ClamAV client not connected"
        /\ ~probe'.body.read
        /\ ~probe'.body.contacted

(* C37: with no client handle, scan_stream returns at once an error      *)
(* verdict (empty hash, size 0, duration 0) with a connection-error      *)
(* value, without reading the stream, contacting the daemon or           *)
(* reconnecting; the handle is still None afterwards.                    *)
C37_NoHandleNoScan == [][C37_Step]_vars

(* scan_stream has answered a client that lost its handle, some time     *)
(* after construction                                                    *)
C37_Witness ==
    /\ probe.endpoint = "scan_stream"
    /\ ~clamav_client
    /\ probe.body.result.status = "error"
    /\ probe.body.result.timestamp > 0
    /\ probe.body.error = "ClamAV client not connected"

----------------------------------------------------------------------------
(* Recovery of the engine connection *)

(* C36: when the connection to ClamAV failed at startup it is retried on *)
(* the first request: a later POST /scan eventually stops answering 503, *)
(* without a restart of the process.                                     *)
C36_ConnectRetried ==
    (phase = "running" /\ ~clamav_client) ~> (resp.status = 200)

----------------------------------------------------------------------------
(* The order of work inside a batch *)

(* The bytes c were scanned earlier in this batch and their verdict was  *)
(* written to the cache, where it still is                               *)
EarlierCached(c) ==
    /\ c \in DOMAIN fresh
    /\ \E k \in 1..Len(req.results) : req.results[k] = fresh[c]

(* While a batch is being served, the files before position i have     *)
(* their verdicts, in order, and at most the file at position i has     *)
(* been read without having one; every engine call made so far has      *)
(* been followed by its cache write                                     *)
C39_InOrder ==
    req.pc \in {"read", "scan", "scanning"} =>
        /\ req.i \in 1..req.n
        /\ Len(req.results) = req.i - 1
        /\ obs.lookups + obs.oversize =
              Len(req.results) + (IF req.pc = "read" THEN 0 ELSE 1)
        /\ obs.scans = obs.writes
        /\ obs.scans <= Len(req.results)

(* The engine call and the cache write of a file are one step that ends *)
(* with its verdict appended, before the next file is read              *)
C39_ScanStep ==
    (req.pc = "scan" /\ req' # req) =>
        /\ obs'.scans = obs.scans + 1
        /\ obs'.writes = obs.writes + 1
        /\ Len(req'.results) = Len(req.results) + 1
        /\ req'.pc \in {"read", "idle"}

(* A file is sent to the engine only if its bytes were not cached       *)
(* earlier in the batch                                                 *)
C39_ServedStep ==
    (req.pc = "read" /\ req'.pc = "scan") => ~EarlierCached(req'.file_content)

(* The same, as long as Redis answers the lookup *)
C39_ServedWhileUpStep ==
    (req.pc = "read" /\ req'.pc = "scan" /\ redis_up) =>
        ~EarlierCached(req'.file_content)

(* C39: within one POST /scan batch the files are processed strictly    *)
(* sequentially in submission order: the engine call and cache write    *)
(* for file i complete before file i+1 is read, at most one engine call *)
(* of the batch is in flight, and a later file with the same bytes as   *)
(* an earlier, successfully cached file of the batch is served from     *)
(* the cache.                                                           *)
C39_Sequential == [][C39_ScanStep /\ C39_ServedStep]_vars /\ []C39_InOrder

(* C39, amended: the same, the later file being served from the cache   *)
(* provided Redis answers when it is looked up and the entry has not    *)
(* expired since it was written.                                        *)
C39_SequentialWhileCacheUp ==
    [][C39_ScanStep /\ C39_ServedWhileUpStep]_vars /\ []C39_InOrder

(* A batch of two files with the same bytes has been answered: the      *)
(* first verdict from the engine, the second from the cache             *)
C39_Witness ==
    /\ resp.status = 200
    /\ Len(resp.results) = 2
    /\ ~resp.results[1].cached
    /\ resp.results[2].cached
    /\ resp.results[1].sha256_hash = resp.results[2].sha256_hash
    /\ resp.results[1].sha256_hash # EmptyHash
    /\ obs.scans = 1

====
